---- MODULE Spec2Model ----
(***************************************************************************)
(* Model of the schema-migration coordinator of AuthServices-API           *)
(* (src/database/db.py; src/database/cassandra.py holds the same           *)
(* algorithm as module-level functions).                                   *)
(*                                                                         *)
(* Every node runs DB.setupDB: it creates the keyspace and the two         *)
(* coordination tables and calls DB.requestMigration, which reaps stale    *)
(* request rows, nominates itself, sleeps, re-reads the request table and  *)
(* either migrates (DB.doMigration) or waits                               *)
(* (DB.waitForMigrationCompletion).  One action of the model is one round  *)
(* trip to the datastore, so that the nodes interleave where the code      *)
(* can interleave.                                                         *)
(*                                                                         *)
(* Timestamps are whole seconds.  The clock variable advances by the       *)
(* settle sleep of requestMigration (2 seconds) or by a stall of more than *)
(* a minute; the t = now() of a nomination is read anywhere within the     *)
(* current 2-second step, so that the reqtimes of the nominees of one      *)
(* epoch come in every order, ties included.                               *)
(***************************************************************************)
EXTENDS Integers, Sequences, FiniteSets, TLC

\* ---------------------------------------------------------------- bounds
Nodes == {1, 2, 3}
MaxNom == 2          \* nominations (fresh reqids) one node may make
MaxStalls == 1       \* times a full staleness period may pass
MaxCrashes == 1      \* node crashes
MaxFaults == 1       \* datastore statements that raise
MaxEvents == 2       \* stalls, crashes and raising statements in all
MaxUuids == 2        \* UUIDs the API generates
MaxRequests == 3     \* requests the API answers
MaxCalls == 2        \* calls of the store gateway one thread makes

\* ------------------------------------------------------ program constants
StaleAfter == 60     \* timedelta(minutes=1), in seconds
SettleTime == 2      \* time.sleep(2), in seconds
Null == -1           \* a column that was never written (Python None)

\* The schema directory of the keyspace, as os.listdir returns it
\* (unsorted): rank is the place of the basename in byte-wise order, cql
\* whether it ends in ".cql".  A baseline's table is its basename without
\* ".cql".  TinyCatalog, SmallCatalog and FullCatalog are the catalogs
\* checked.
TinyCatalog ==
    [baseline |-> {},
     migrate  |-> { [rank |-> 1, name |-> "001", cql |-> TRUE] }]
SmallCatalog ==
    [baseline |-> { [rank |-> 1, name |-> "README", cql |-> FALSE],
                    [rank |-> 2, name |-> "orgs", cql |-> TRUE] },
     migrate  |-> { [rank |-> 1, name |-> "001", cql |-> TRUE] }]
FullCatalog ==
    [baseline |-> { [rank |-> 3, name |-> "users", cql |-> TRUE],
                    [rank |-> 1, name |-> "README", cql |-> FALSE],
                    [rank |-> 2, name |-> "orgs", cql |-> TRUE] },
     migrate  |-> { [rank |-> 2, name |-> "002", cql |-> TRUE],
                    [rank |-> 1, name |-> "001", cql |-> TRUE] }]
AllTables == {"orgs", "users"}
AllScripts == {"001", "002"}

\* uuid.uuid4(): node n's k-th request id.
ReqIds == 1 .. (Cardinality(Nodes) * MaxNom)
NewReqId(n, k) == (k - 1) * Cardinality(Nodes) + n
Owner(r) == ((r - 1) % Cardinality(Nodes)) + 1

VARIABLES
    now,        \* the wall clock
    keyspace,   \* whether the keyspace exists
    tables,     \* the tables of the keyspace
    requests,   \* schema_migration_requests: reqid -> row
    migrations, \* schema_migrations: <<scriptname, time>> -> row
    pc,         \* where each node is in setupDB
    active,     \* the nodes that call setupDB
    catalog,    \* the schema directory: its baseline and migration listings
    myReq,      \* reqid of the node's current nomination (0: none)
    myT,        \* t of the node's current nomination
    nomCount,   \* nominations the node has made
    wake,       \* when the node's settle sleep ends
    toReap,     \* stale rows the node has still to delete
    rmNext,     \* what the node does after reaping
    phase,      \* "baseline" or "migrate": the directory being processed
    idx,        \* index of the current file in the sorted listing
    exectime,   \* time of the history row of the script being run
    last,       \* what the node logged for its current file: ran or skipped
    ddl,        \* per baseline table: how often its CQL was executed
    execOK,     \* per script: how often its CQL was executed successfully
    lateInsert, \* some nominee re-read before a pending nominee's insert
    reapedLive, \* a request row was reaped while its owner was using it
    orphans,    \* history rows left provisional by a crashed node
    stalls, crashes, faults,  \* environment events so far
    users,      \* authdb.users: <<org, username>> -> row
    userpasswordresets,   \* authdb.userpasswordresets: <<org, username>> -> row
    orgsettings,          \* authdb.orgsettings: <<org, setting>> -> value
    usersessions,         \* the sessions: <<org, username, sessionid>>
    sessionkeys,          \* the session keys: key -> row
    issued,     \* uuid.uuid4() values generated so far
    served,     \* requests the API has answered so far
    response,   \* the last request the API answered, with its response
    consumed,   \* the <<org, username, resetid>> of completed resets
    cluster,    \* CassandraCluster.cluster: 0 (None) or the Cluster object
    session,    \* CassandraCluster.session: lookup -> session object
    preparedStmts,        \* CassandraCluster.preparedStmts
    frame,      \* the gateway call each thread is in, and its position
    made,       \* the Cluster and session objects constructed so far
    discarded,  \* a thread dropped what another thread had registered
    config,     \* Settings.config
    loaded,     \* Settings.loaded
    sysConfig,  \* json.load of /etc/authservicesapi.conf, or no file
    remerged,   \* mergeConfig(Settings.config, the file) applied once more
    globalsettings,       \* authdb.globalsettings: setting -> value
    orgs,       \* authdb.orgs: org -> row
    cdo,        \* the createDefaultOrg invocation of each caller
    cdoLog,     \* what the invocations so far have done
    posts       \* the POST /users request each worker is handling

nodeVars == <<pc, active, catalog, myReq, myT, nomCount, wake, toReap, rmNext, phase,
              idx, exectime, last>>
storeVars == <<keyspace, tables, requests, migrations>>
ghostVars == <<ddl, execOK, lateInsert, reapedLive, orphans>>
envVars == <<stalls, crashes, faults>>
migVars == <<storeVars, nodeVars, ghostVars, envVars>>
authVars == <<users, userpasswordresets, orgsettings, usersessions, sessionkeys,
              issued, served, response, consumed>>
gwVars == <<cluster, session, preparedStmts, frame, made, discarded>>
cfgVars == <<config, loaded, sysConfig, remerged>>
cdoVars == <<globalsettings, orgs, cdo, cdoLog>>
apiVars == <<authVars, gwVars, cfgVars, cdoVars, posts>>
outsideApi == <<migVars, gwVars, cfgVars, cdoVars, posts>>
outsideGw == <<now, migVars, authVars, cfgVars, cdoVars, posts>>
outsideCfg == <<now, migVars, authVars, gwVars, cdoVars, posts>>
outsideCdo == <<now, migVars, gwVars, cfgVars, userpasswordresets,
                usersessions, sessionkeys, issued, served, response, consumed,
                posts>>
outsidePost == <<now, migVars, gwVars, cfgVars, cdoVars, userpasswordresets,
                 orgsettings, usersessions, sessionkeys, issued, served,
                 response, consumed>>
vars == <<now, storeVars, nodeVars, ghostVars, envVars, apiVars>>

\* ------------------------------------------------------------- the store
Put(f, k, v) == [x \in (DOMAIN f) \cup {k} |-> IF x = k THEN v ELSE f[x]]
Del(f, k) == [x \in (DOMAIN f) \ {k} |-> f[x]]
EmptyTable == [x \in {} |-> 0]

\* The token order in which SELECT * returns the rows of
\* schema_migration_requests: fixed by the partitioner, unrelated to the
\* order of the reqids.
Token(r) == 0 - r

StoreOrder(S) ==
    [i \in 1..Cardinality(S) |->
        CHOOSE r \in S :
            Cardinality({x \in S : Token(x) < Token(r)}) = i - 1]

\* session.execute(SELECT * FROM schema_migration_requests).current_rows
SelectRequests == StoreOrder(DOMAIN requests)

\* UPDATE schema_migration_requests SET ... WHERE reqid = r.  An UPDATE of
\* a row that does not exist creates it, with the columns it does not set
\* left null (a null boolean is falsy in every test the code makes).
BlankRow == [reqtime |-> Null, inprogress |-> FALSE, failed |-> FALSE,
             lastupdate |-> Null]
RowOrBlank(r) == IF r \in DOMAIN requests THEN requests[r] ELSE BlankRow

\* ---------------------------------------------------------- requestMigration
\* The staleness test without its "req.failed": a failed request stays until
\* it is a minute old.
IsStale_NotFailed(row, staleTime) ==
    \/ (~row.inprogress /\ row.reqtime < staleTime)
    \/ (row.inprogress /\ row.lastupdate < staleTime)

\* The staleness test of the reap loop.
IsStale(row, staleTime) ==
    \/ row.failed
    \/ (~row.inprogress /\ row.reqtime < staleTime)
    \/ (row.inprogress /\ row.lastupdate < staleTime)

\* Evaluating the test raises TypeError when it compares a null reqtime.
StaleRaises(row) == ~row.failed /\ ~row.inprogress /\ row.reqtime = Null

\* Index of the first row of the listing whose test raises (0: none).
FirstRaise(rows) ==
    IF \E i \in 1..Len(rows) : StaleRaises(requests[rows[i]])
    THEN CHOOSE i \in 1..Len(rows) :
            /\ StaleRaises(requests[rows[i]])
            /\ \A j \in 1..(i - 1) : ~StaleRaises(requests[rows[j]])
    ELSE 0

\* sorted(migrationRequests, key=lambda x: x.reqtime): a stable sort of
\* the listing by reqtime; rows of equal reqtime keep the order of the
\* listing.
SortsBefore(rows, i, j) ==
    \/ requests[rows[i]].reqtime < requests[rows[j]].reqtime
    \/ (requests[rows[i]].reqtime = requests[rows[j]].reqtime /\ i < j)

SortedByReqtime(rows) ==
    [p \in 1..Len(rows) |->
        rows[CHOOSE i \in 1..Len(rows) :
                Cardinality({j \in 1..Len(rows) : SortsBefore(rows, j, i)})
                    = p - 1]]

\* sorted() raises TypeError when it has to compare a null reqtime.
SortRaises(rows) ==
    Len(rows) >= 2 /\ \E i \in 1..Len(rows) : requests[rows[i]].reqtime = Null

\* -------------------------------------------------------------- schemaDir
\* The listing taken in descending order of basename.
SortedFiles_Descending(dir) ==
    [i \in 1..Cardinality(dir) |->
        CHOOSE f \in dir :
            Cardinality({x \in dir : x.rank > f.rank}) = i - 1]

\* contents = os.listdir(path); contents.sort()
SortedFiles(dir) ==
    [i \in 1..Cardinality(dir) |->
        CHOOSE f \in dir :
            Cardinality({x \in dir : x.rank < f.rank}) = i - 1]

DirOf(ph) == IF ph = "baseline" THEN SortedFiles(catalog.baseline)
             ELSE SortedFiles(catalog.migrate)

\* The tables and the scripts of the catalog.
BaselineTables == {f.name : f \in {g \in catalog.baseline : g.cql}}
Scripts == {f.name : f \in {g \in catalog.migrate : g.cql}}

\* The next entry after i that func is called on (0: none is left).
NextCql(files, i) ==
    IF \E j \in (i + 1)..Len(files) : files[j].cql
    THEN CHOOSE j \in (i + 1)..Len(files) :
            files[j].cql /\ \A k \in (i + 1)..(j - 1) : ~files[k].cql
    ELSE 0

\* Where doMigration goes after entry i of directory ph: <<pc, phase, idx>>.
Advance(ph, i) ==
    LET j == NextCql(DirOf(ph), i)
        m == NextCql(DirOf("migrate"), 0)
    IN IF j # 0
       THEN <<IF ph = "baseline" THEN "bl_check" ELSE "ms_hist", ph, j>>
       ELSE IF ph = "baseline" /\ m # 0
            THEN <<"ms_hist", "migrate", m>>
            ELSE <<"rm_delete", "done", 0>>

CurFile(n) == DirOf(phase[n])[idx[n]].name

\* ---------------------------------------------------------- migrateSchema
\* SELECT * FROM schema_migrations WHERE scriptname = s: the rows of the
\* partition in clustering order (ascending time).
TimesAsc(T) ==
    [i \in 1..Cardinality(T) |->
        CHOOSE t \in T : Cardinality({x \in T : x < t}) = i - 1]

History(s) ==
    LET ts == TimesAsc({k[2] : k \in {x \in DOMAIN migrations : x[1] = s}})
    IN [i \in 1..Len(ts) |-> migrations[<<s, ts[i]>>]]

\* The test made on the first row of the history instead of the last.
ShouldRun_FirstRow(h) ==
    \/ Len(h) = 0
    \/ h[1].failed
    \/ ~h[1].run

\* The test without its "not last.run": a provisional row counts as done.
ShouldRun_FailedOnly(h) ==
    \/ Len(h) = 0
    \/ h[Len(h)].failed

\* The test with "not last.run" read as "last.run".
ShouldRun_RunAgain(h) ==
    \/ Len(h) = 0
    \/ h[Len(h)].failed
    \/ h[Len(h)].run

\* "Run if there is no history or the last execution failed"
ShouldRun(h) ==
    \/ Len(h) = 0
    \/ h[Len(h)].failed
    \/ ~h[Len(h)].run

Applied(s) ==
    LET h == History(s)
    IN Len(h) > 0 /\ h[Len(h)].run /\ ~h[Len(h)].failed


\* ------------------------------------------------------------------ Init
\* No request has reached the REST API.
InitApiIdle ==
    /\ users = EmptyTable
    /\ userpasswordresets = EmptyTable
    /\ orgsettings = EmptyTable
    /\ usersessions = {}
    /\ sessionkeys = EmptyTable
    /\ issued = 0
    /\ served = 0
    /\ response = [op |-> "none"]
    /\ consumed = {}
    /\ posts = [w \in {1, 2} |->
                [pc |-> "idle", account |-> <<"", "">>, email |-> <<>>,
                 status |-> 0, calls |-> 0]]

InitMigration(A, cat) ==
    /\ now = 0
    /\ keyspace = FALSE
    /\ tables = {}
    /\ requests = EmptyTable
    /\ migrations = EmptyTable
    /\ active = A
    /\ catalog = cat
    /\ pc = [n \in Nodes |-> IF n \in A THEN "setup" ELSE "idle"]
    /\ myReq = [n \in Nodes |-> 0]
    /\ myT = [n \in Nodes |-> 0]
    /\ nomCount = [n \in Nodes |-> 0]
    /\ wake = [n \in Nodes |-> 0]
    /\ toReap = [n \in Nodes |-> {}]
    /\ rmNext = [n \in Nodes |-> "none"]
    /\ phase = [n \in Nodes |-> "none"]
    /\ idx = [n \in Nodes |-> 0]
    /\ exectime = [n \in Nodes |-> 0]
    /\ last = [n \in Nodes |-> "none"]
    /\ ddl = [t \in AllTables |-> 0]
    /\ execOK = [s \in AllScripts |-> 0]
    /\ lateInsert = FALSE
    /\ reapedLive = FALSE
    /\ orphans = {}
    /\ stalls = 0
    /\ crashes = 0
    /\ faults = 0

\* The class attributes of CassandraCluster as the class statement leaves
\* them, and no thread in a call.
InitGateway ==
    /\ cluster = 0
    /\ session = EmptyTable
    /\ preparedStmts = EmptyTable
    /\ frame = [t \in {1, 2} |->
                    [pc |-> "idle", op |-> "none", lookup |-> "*",
                     statement |-> "none", calls |-> 0]]
    /\ made = [clusters |-> 0, sessions |-> [l \in {"*", "authdb"} |-> 0]]
    /\ discarded = FALSE

\* A configuration value: a scalar s, or a map v from keys to values.
Scalar(x) == [t |-> "scalar", s |-> x, v |-> EmptyTable]
Map(f) == [t |-> "map", s |-> 0, v |-> f]
IsMap(x) == x.t = "map"
NoFile == [t |-> "nofile", s |-> 0, v |-> EmptyTable]
NotMerged == [val |-> NoFile, raised |-> FALSE]

\* Settings as the class statement leaves it: the built-in defaults, two
\* maps of scalars, not loaded.
DefaultConfig ==
    Map(("k1" :> Map(("k1" :> Scalar(0)) @@ ("k2" :> Scalar(0))))
        @@ ("k2" :> Map(("k1" :> Scalar(0)) @@ ("k2" :> Scalar(0)))))
InitSettings(A, B) ==
    /\ config \in A
    /\ sysConfig \in B
    /\ loaded = FALSE
    /\ remerged = NotMerged

\* No default org set up, and no caller in createDefaultOrg.
InitDefaultOrg ==
    /\ globalsettings = EmptyTable
    /\ orgs = EmptyTable
    /\ cdo = [c \in {1, 2} |->
                [pc |-> "idle", orgName |-> "", adminUser |-> "",
                 defaultOrg |-> "", late |-> FALSE, further |-> FALSE,
                 alone |-> FALSE, wrote |-> 0, calls |-> 0]]
    /\ cdoLog = [completed |-> FALSE, settled |-> FALSE]

InitWith(A, cat) ==
    /\ InitMigration(A, cat)
    /\ InitApiIdle
    /\ InitGateway
    /\ InitSettings({DefaultConfig}, {NoFile})
    /\ InitDefaultOrg

\* The places of a node that holds a request row it still uses.
UsingRow == {"rm_reread", "rm_mark", "bl_check", "bl_exec", "bl_recheck",
             "ms_hist", "ms_insert", "ms_exec", "ms_succ", "ms_fail", "upd",
             "rm_delete", "rm_loserdelete", "rm_markfailed"}
\* The places inside the try block of requestMigration (DB.doMigration).
InDoMigration == {"bl_check", "bl_exec", "bl_recheck", "ms_hist", "ms_insert",
                  "ms_exec", "ms_succ", "ms_fail", "upd"}
Stopped == {"idle", "done", "error", "crashed"}

Goto(n, to) == pc' = [pc EXCEPT ![n] = to]

\* Whether the environment may still disturb the run.
MayDisturb == stalls + crashes + faults < MaxEvents

\* --------------------------------------------------------------- setupDB
\* DB.createDB with cassandra.AlreadyExists swallowed, the CREATE TABLE of
\* each coordination table that tableExists says is absent (exceptions
\* ignored), and time.sleep(1).
SD_Setup(n) ==
    /\ pc[n] = "setup"
    /\ keyspace' = TRUE
    /\ tables' = tables \cup {"schema_migrations", "schema_migration_requests"}
    /\ Goto(n, "rm_read")
    /\ UNCHANGED <<now, requests, migrations, active, catalog, myReq, myT,
                   nomCount, wake, toReap, rmNext, phase, idx, exectime, last,
                   ghostVars, envVars, apiVars>>

\* setupDB with a CREATE TABLE that raises for another reason than the
\* table existing: "Failed to create ... table (Ignoring)".  Each absent
\* coordination table is created or not, one at least is not, and setupDB
\* goes on to time.sleep(1) and DB.requestMigration all the same.
SD_SetupFail(n) ==
    /\ pc[n] = "setup"
    /\ faults < MaxFaults
    /\ MayDisturb
    /\ faults' = faults + 1
    /\ keyspace' = TRUE
    /\ LET absent == {"schema_migrations", "schema_migration_requests"}
                        \ tables
       IN /\ absent # {}
          /\ \E created \in (SUBSET absent) \ {absent} :
                tables' = tables \cup created
    /\ Goto(n, "rm_read")
    /\ UNCHANGED <<now, requests, migrations, active, catalog, myReq, myT,
                   nomCount, wake, toReap, rmNext, phase, idx, exectime, last,
                   stalls, crashes, ghostVars, apiVars>>

\* ------------------------------------------------------ requestMigration
\* What follows the reap loop when a node nominates itself whether or not
\* it kept a request.
Decide_AlwaysNominate(n, outcome) ==
    CASE outcome \in {"nominate", "wait"} ->
            /\ nomCount[n] < MaxNom
            /\ nomCount' = [nomCount EXCEPT ![n] = @ + 1]
            /\ myReq' = [myReq EXCEPT ![n] = NewReqId(n, nomCount[n] + 1)]
            /\ \E d \in 0..(SettleTime - 1) :
                    myT' = [myT EXCEPT ![n] = now + d]
            /\ Goto(n, "rm_insert")
      [] OTHER ->
            /\ Goto(n, "error")
            /\ UNCHANGED <<nomCount, myReq, myT, apiVars>>

\* What follows the reap loop: nominate (reqid = uuid4(), t = now()), wait,
\* or the TypeError of the loop.
Decide(n, outcome) ==
    CASE outcome = "nominate" ->
            /\ nomCount[n] < MaxNom
            /\ nomCount' = [nomCount EXCEPT ![n] = @ + 1]
            /\ myReq' = [myReq EXCEPT ![n] = NewReqId(n, nomCount[n] + 1)]
            /\ \E d \in 0..(SettleTime - 1) :
                    myT' = [myT EXCEPT ![n] = now + d]
            /\ Goto(n, "rm_insert")
      [] outcome = "wait" ->
            /\ Goto(n, "wait")
            /\ UNCHANGED <<nomCount, myReq, myT, apiVars>>
      [] OTHER ->
            /\ Goto(n, "error")
            /\ UNCHANGED <<nomCount, myReq, myT, apiVars>>

\* The first SELECT and the classification of its rows: the rows before the
\* first one whose test raises are stale (to delete) or live.
RM_Read(n) ==
    /\ pc[n] = "rm_read"
    /\ "schema_migration_requests" \in tables
    /\ LET rows == SelectRequests
           staleTime == now - StaleAfter
           e == FirstRaise(rows)
           seen == {rows[i] : i \in 1..(IF e = 0 THEN Len(rows) ELSE e - 1)}
           stale == {r \in seen : IsStale(requests[r], staleTime)}
           outcome == IF e # 0 THEN "error"
                      ELSE IF seen \ stale = {} THEN "nominate" ELSE "wait"
       IN IF stale = {}
          THEN /\ Decide(n, outcome)
               /\ UNCHANGED <<toReap, rmNext, apiVars>>
          ELSE /\ toReap' = [toReap EXCEPT ![n] = stale]
               /\ rmNext' = [rmNext EXCEPT ![n] = outcome]
               /\ Goto(n, "rm_reap")
               /\ UNCHANGED <<nomCount, myReq, myT, apiVars>>
    /\ UNCHANGED <<now, active, catalog, wake, phase, idx, exectime, last,
                   storeVars, ghostVars, envVars, apiVars>>

\* The statements on schema_migration_requests prepared at the start of
\* requestMigration while the table does not exist: the driver raises, and
\* so do requestMigration and setupDB.
RM_ReadNoTable(n) ==
    /\ pc[n] = "rm_read"
    /\ "schema_migration_requests" \notin tables
    /\ Goto(n, "error")
    /\ UNCHANGED <<now, active, catalog, wake, nomCount, myReq, myT, toReap,
                   rmNext, phase, idx, exectime, last, storeVars, ghostVars,
                   envVars, apiVars>>

\* One DELETE of the reap loop; the last one is followed by the decision.
RM_Reap(n) ==
    /\ pc[n] = "rm_reap"
    /\ toReap[n] # {}
    /\ LET r == StoreOrder(toReap[n])[1]
           rest == toReap[n] \ {r}
       IN /\ requests' = Del(requests, r)
          /\ reapedLive' = (reapedLive \/
                (r \in DOMAIN requests /\ myReq[Owner(r)] = r
                    /\ pc[Owner(r)] \in UsingRow))
          /\ toReap' = [toReap EXCEPT ![n] = rest]
          /\ IF rest = {}
             THEN /\ Decide(n, rmNext[n])
                  /\ rmNext' = [rmNext EXCEPT ![n] = "none"]
             ELSE UNCHANGED <<pc, nomCount, myReq, myT, rmNext>>
    /\ UNCHANGED <<now, keyspace, tables, migrations, active, catalog, wake,
                   phase, idx, exectime, last, ddl, execOK, lateInsert,
                   orphans, envVars, apiVars>>

\* The DELETE of the reap loop raising without the try/except around it:
\* the exception leaves requestMigration.
RM_ReapFail_Raises(n) ==
    /\ pc[n] = "rm_reap"
    /\ toReap[n] # {}
    /\ faults < MaxFaults
    /\ MayDisturb
    /\ faults' = faults + 1
    /\ toReap' = [toReap EXCEPT ![n] = {}]
    /\ rmNext' = [rmNext EXCEPT ![n] = "none"]
    /\ Goto(n, "error")
    /\ UNCHANGED <<now, active, catalog, wake, nomCount, myReq, myT, phase,
                   idx, exectime, last, stalls, crashes, storeVars, ghostVars,
                   apiVars>>

\* The DELETE of the reap loop raising: "except: pass".  The row stays in
\* the table, it is not appended to migrationRequests, and the loop goes on.
RM_ReapFail(n) ==
    /\ pc[n] = "rm_reap"
    /\ toReap[n] # {}
    /\ faults < MaxFaults
    /\ MayDisturb
    /\ faults' = faults + 1
    /\ LET r == StoreOrder(toReap[n])[1]
           rest == toReap[n] \ {r}
       IN /\ toReap' = [toReap EXCEPT ![n] = rest]
          /\ IF rest = {}
             THEN /\ Decide(n, rmNext[n])
                  /\ rmNext' = [rmNext EXCEPT ![n] = "none"]
             ELSE UNCHANGED <<pc, nomCount, myReq, myT, rmNext>>
    /\ UNCHANGED <<now, active, catalog, wake, phase, idx, exectime, last,
                   stalls, crashes, storeVars, ghostVars, apiVars>>

\* INSERT INTO schema_migration_requests (reqid, t, false, false, t), then
\* time.sleep(2).
RM_Insert(n) ==
    /\ pc[n] = "rm_insert"
    /\ requests' = Put(requests, myReq[n],
            [reqtime |-> myT[n], inprogress |-> FALSE, failed |-> FALSE,
             lastupdate |-> myT[n]])
    /\ wake' = [wake EXCEPT ![n] = now + SettleTime]
    /\ myT' = [myT EXCEPT ![n] = 0]
    /\ Goto(n, "rm_reread")
    /\ UNCHANGED <<now, keyspace, tables, migrations, active, catalog, myReq,
                   nomCount, toReap, rmNext, phase, idx, exectime, last,
                   ghostVars, envVars, apiVars>>

\* time.sleep(2): the settle window of a sleeping node passes.
Tick ==
    /\ \E n \in Nodes : pc[n] = "rm_reread" /\ now < wake[n]
    /\ now' = now + SettleTime
    /\ UNCHANGED <<nodeVars, storeVars, ghostVars, envVars, apiVars>>

\* migrationRequests[0] of the sorted re-read.
Winner(rows) == SortedByReqtime(rows)[1]

\* The test comparing the reqtime of the first request instead of its reqid.
IsSelected_ByReqtime(rows, n) ==
    requests[Winner(rows)].reqtime = RowOrBlank(myReq[n]).reqtime

\* "if (migrationRequests[0].reqid == reqid)": we were selected.
IsSelected(rows, n) == Winner(rows) = myReq[n]

\* The re-read after the sleep: selected, not selected, or the IndexError
\* of an empty listing / the TypeError of sorted().
RM_Reread(n) ==
    /\ pc[n] = "rm_reread"
    /\ now >= wake[n]
    /\ LET rows == SelectRequests
       IN IF rows = <<>> \/ SortRaises(rows)
          THEN Goto(n, "error")
          ELSE IF IsSelected(rows, n)
               THEN Goto(n, "rm_mark")
               ELSE Goto(n, "rm_loserdelete")
    /\ wake' = [wake EXCEPT ![n] = 0]
    /\ lateInsert' = (lateInsert \/ \E m \in Nodes \ {n} : pc[m] = "rm_insert")
    /\ UNCHANGED <<now, active, catalog, myReq, myT, nomCount, toReap, rmNext,
                   phase, idx, exectime, last, ddl, execOK, reapedLive,
                   orphans, storeVars, envVars, apiVars>>

\* UPDATE ... SET inprogress = true, lastupdate = now; then doMigration
\* starts with the first baseline file.
RM_Mark(n) ==
    /\ pc[n] = "rm_mark"
    /\ requests' = Put(requests, myReq[n],
            [RowOrBlank(myReq[n]) EXCEPT !.inprogress = TRUE,
                                         !.lastupdate = now])
    /\ LET a == Advance("baseline", 0)
       IN /\ Goto(n, a[1])
          /\ phase' = [phase EXCEPT ![n] = a[2]]
          /\ idx' = [idx EXCEPT ![n] = a[3]]
    /\ UNCHANGED <<now, keyspace, tables, migrations, active, catalog, myReq,
                   myT, nomCount, wake, toReap, rmNext, exectime, last,
                   ghostVars, envVars, apiVars>>

\* A node that was not selected waiting with its request left in the table.
RM_LoserDelete_Kept(n) ==
    /\ pc[n] = "rm_loserdelete"
    /\ myReq' = [myReq EXCEPT ![n] = 0]
    /\ Goto(n, "wait")
    /\ UNCHANGED <<now, active, catalog, myT, nomCount, wake, toReap, rmNext,
                   phase, idx, exectime, last, storeVars, ghostVars, envVars,
                   apiVars>>

\* "Not selected, delete our request", then waitForMigrationCompletion.
RM_LoserDelete(n) ==
    /\ pc[n] = "rm_loserdelete"
    /\ requests' = Del(requests, myReq[n])
    /\ myReq' = [myReq EXCEPT ![n] = 0]
    /\ Goto(n, "wait")
    /\ UNCHANGED <<now, keyspace, tables, migrations, active, catalog, myT,
                   nomCount, wake, toReap, rmNext, phase, idx, exectime, last,
                   ghostVars, envVars, apiVars>>

\* requestMigration returning without the DELETE of its request.
RM_Delete_Kept(n) ==
    /\ pc[n] = "rm_delete"
    /\ myReq' = [myReq EXCEPT ![n] = 0]
    /\ Goto(n, "done")
    /\ UNCHANGED <<now, active, catalog, myT, nomCount, wake, toReap, rmNext,
                   phase, idx, exectime, last, storeVars, ghostVars, envVars,
                   apiVars>>

\* "Delete our req if successfully completed": requestMigration returns.
RM_Delete(n) ==
    /\ pc[n] = "rm_delete"
    /\ requests' = Del(requests, myReq[n])
    /\ myReq' = [myReq EXCEPT ![n] = 0]
    /\ Goto(n, "done")
    /\ UNCHANGED <<now, keyspace, tables, migrations, active, catalog, myT,
                   nomCount, wake, toReap, rmNext, phase, idx, exectime, last,
                   ghostVars, envVars, apiVars>>

\* The except branch deleting the request instead of marking it failed.
RM_MarkFailed_Deleted(n) ==
    /\ pc[n] = "rm_markfailed"
    /\ requests' = Del(requests, myReq[n])
    /\ Goto(n, "error")
    /\ UNCHANGED <<now, keyspace, tables, migrations, active, catalog, myReq,
                   myT, nomCount, wake, toReap, rmNext, phase, idx, exectime,
                   last, ghostVars, envVars, apiVars>>

\* The except branch: UPDATE ... SET lastupdate = now, failed = true,
\* inprogress = false; raise e.
RM_MarkFailed(n) ==
    /\ pc[n] = "rm_markfailed"
    /\ requests' = Put(requests, myReq[n],
            [RowOrBlank(myReq[n]) EXCEPT !.failed = TRUE,
                                         !.inprogress = FALSE,
                                         !.lastupdate = now])
    /\ Goto(n, "error")
    /\ UNCHANGED <<now, keyspace, tables, migrations, active, catalog, myReq,
                   myT, nomCount, wake, toReap, rmNext, phase, idx, exectime,
                   last, ghostVars, envVars, apiVars>>

\* ------------------------------------------------------------ doMigration
\* schemaDir going on to the next file without the call of DB.updateReq.
UpdateReq_NoRefresh(n) ==
    /\ pc[n] = "upd"
    /\ last' = [last EXCEPT ![n] = "none"]
    /\ LET a == Advance(phase[n], idx[n])
       IN /\ Goto(n, a[1])
          /\ phase' = [phase EXCEPT ![n] = a[2]]
          /\ idx' = [idx EXCEPT ![n] = a[3]]
    /\ UNCHANGED <<now, active, catalog, myReq, myT, nomCount, wake, toReap,
                   rmNext, exectime, storeVars, ghostVars, envVars, apiVars>>

\* DB.updateReq after a file, then the next file, the next directory or the
\* end of doMigration.
UpdateReq(n) ==
    /\ pc[n] = "upd"
    /\ requests' = Put(requests, myReq[n],
            [RowOrBlank(myReq[n]) EXCEPT !.lastupdate = now])
    /\ last' = [last EXCEPT ![n] = "none"]
    /\ LET a == Advance(phase[n], idx[n])
       IN /\ Goto(n, a[1])
          /\ phase' = [phase EXCEPT ![n] = a[2]]
          /\ idx' = [idx EXCEPT ![n] = a[3]]
    /\ UNCHANGED <<now, keyspace, tables, migrations, active, catalog, myReq,
                   myT, nomCount, wake, toReap, rmNext, exectime, ghostVars,
                   envVars, apiVars>>

\* A lookup in system.schema_columnfamilies that never finds the table.
TableExists_Never(t) == FALSE

\* DB.tableExists(keyspace, table)
TableExists(t) == t \in tables

\* DB.baseline without its test: the file is run whatever tables exist.
BL_Check_NoTest(n) ==
    /\ pc[n] = "bl_check"
    /\ Goto(n, "bl_exec")
    /\ UNCHANGED <<now, active, catalog, myReq, myT, nomCount, wake, toReap,
                   rmNext, phase, idx, exectime, last, storeVars, ghostVars,
                   envVars, apiVars>>

\* DB.baseline: "if not DB.tableExists(...)": run the file, or skip it.
BL_Check(n) ==
    /\ pc[n] = "bl_check"
    /\ IF TableExists(CurFile(n))
       THEN /\ Goto(n, "upd")
            /\ last' = [last EXCEPT ![n] = "skipped"]
       ELSE /\ Goto(n, "bl_exec")
            /\ UNCHANGED last
    /\ UNCHANGED <<now, active, catalog, myReq, myT, nomCount, wake, toReap,
                   rmNext, phase, idx, exectime, storeVars, ghostVars,
                   envVars, apiVars>>

\* session.execute of the baseline's CREATE TABLE: it creates the table, or
\* raises AlreadyExists when another node created it meanwhile.
BL_Exec(n) ==
    /\ pc[n] = "bl_exec"
    /\ ddl' = [ddl EXCEPT ![CurFile(n)] = @ + 1]
    /\ IF CurFile(n) \in tables
       THEN /\ Goto(n, "bl_recheck")
            /\ UNCHANGED <<tables, last, apiVars>>
       ELSE /\ tables' = tables \cup {CurFile(n)}
            /\ last' = [last EXCEPT ![n] = "ran"]
            /\ Goto(n, "upd")
    /\ UNCHANGED <<now, keyspace, requests, migrations, active, catalog,
                   myReq, myT, nomCount, wake, toReap, rmNext, phase, idx,
                   exectime, execOK, lateInsert, reapedLive, orphans,
                   envVars, apiVars>>

\* The same statement raising for another reason, the table not created.
BL_ExecFail(n) ==
    /\ pc[n] = "bl_exec"
    /\ faults < MaxFaults
    /\ MayDisturb
    /\ faults' = faults + 1
    /\ ddl' = [ddl EXCEPT ![CurFile(n)] = @ + 1]
    /\ Goto(n, "bl_recheck")
    /\ UNCHANGED <<now, active, catalog, myReq, myT, nomCount, wake, toReap,
                   rmNext, phase, idx, exectime, last, execOK, lateInsert,
                   reapedLive, orphans, stalls, crashes, storeVars, apiVars>>

\* The except branch of DB.baseline raising whatever the second lookup says.
BL_Recheck_AlwaysRaise(n) ==
    /\ pc[n] = "bl_recheck"
    /\ Goto(n, "rm_markfailed")
    /\ UNCHANGED <<now, active, catalog, myReq, myT, nomCount, wake, toReap,
                   rmNext, phase, idx, exectime, last, storeVars, ghostVars,
                   envVars, apiVars>>

\* The except branch of DB.baseline: a warning when the table exists now,
\* "raise e" otherwise.
BL_Recheck(n) ==
    /\ pc[n] = "bl_recheck"
    /\ IF TableExists(CurFile(n))
       THEN /\ Goto(n, "upd")
            /\ last' = [last EXCEPT ![n] = "warned"]
       ELSE /\ Goto(n, "rm_markfailed")
            /\ UNCHANGED last
    /\ UNCHANGED <<now, active, catalog, myReq, myT, nomCount, wake, toReap,
                   rmNext, phase, idx, exectime, storeVars, ghostVars,
                   envVars, apiVars>>

\* DB.migrateSchema: the history query and the test on its last row.
MS_Hist(n) ==
    /\ pc[n] = "ms_hist"
    /\ "schema_migrations" \in tables
    /\ IF ShouldRun(History(CurFile(n)))
       THEN /\ Goto(n, "ms_insert")
            /\ UNCHANGED last
       ELSE /\ Goto(n, "upd")
            /\ last' = [last EXCEPT ![n] = "skipped"]
    /\ UNCHANGED <<now, active, catalog, myReq, myT, nomCount, wake, toReap,
                   rmNext, phase, idx, exectime, storeVars, ghostVars,
                   envVars, apiVars>>

\* The history query while schema_migrations does not exist: the driver
\* raises, outside the try of migrateSchema, up to requestMigration.
MS_HistNoTable(n) ==
    /\ pc[n] = "ms_hist"
    /\ "schema_migrations" \notin tables
    /\ Goto(n, "rm_markfailed")
    /\ UNCHANGED <<now, active, catalog, myReq, myT, nomCount, wake, toReap,
                   rmNext, phase, idx, exectime, last, storeVars, ghostVars,
                   envVars, apiVars>>

\* exectime = now(); INSERT INTO schema_migrations (scriptname, time, run,
\* failed, error, content) VALUES (?, ?, false, false, '', ?)
MS_Insert(n) ==
    /\ pc[n] = "ms_insert"
    /\ exectime' = [exectime EXCEPT ![n] = now]
    /\ migrations' = Put(migrations, <<CurFile(n), now>>,
            [run |-> FALSE, failed |-> FALSE, error |-> ""])
    /\ Goto(n, "ms_exec")
    /\ UNCHANGED <<now, keyspace, tables, requests, active, catalog, myReq,
                   myT, nomCount, wake, toReap, rmNext, phase, idx, last,
                   ghostVars, envVars, apiVars>>

\* session.execute(SimpleStatement(content)) succeeds.
MS_Exec(n) ==
    /\ pc[n] = "ms_exec"
    /\ execOK' = [execOK EXCEPT ![CurFile(n)] = @ + 1]
    /\ Goto(n, "ms_succ")
    /\ UNCHANGED <<now, active, catalog, myReq, myT, nomCount, wake, toReap,
                   rmNext, phase, idx, exectime, last, ddl, lateInsert,
                   reapedLive, orphans, storeVars, envVars, apiVars>>

\* session.execute(SimpleStatement(content)) raises: the script fails.
MS_ExecFail(n) ==
    /\ pc[n] = "ms_exec"
    /\ faults < MaxFaults
    /\ MayDisturb
    /\ faults' = faults + 1
    /\ Goto(n, "ms_fail")
    /\ UNCHANGED <<now, active, catalog, myReq, myT, nomCount, wake, toReap,
                   rmNext, phase, idx, exectime, last, stalls, crashes,
                   storeVars, ghostVars, apiVars>>

\* The UPDATE without "AND time = ?": every row of the script is marked.
MS_UpdateSuccess_AllRows(n) ==
    /\ pc[n] = "ms_succ"
    /\ migrations' = [k \in DOMAIN migrations |->
                        IF k[1] = CurFile(n)
                        THEN [migrations[k] EXCEPT !.run = TRUE,
                                                   !.failed = FALSE]
                        ELSE migrations[k]]
    /\ last' = [last EXCEPT ![n] = "ran"]
    /\ exectime' = [exectime EXCEPT ![n] = 0]
    /\ Goto(n, "upd")
    /\ UNCHANGED <<now, keyspace, tables, requests, active, catalog, myReq,
                   myT, nomCount, wake, toReap, rmNext, phase, idx, ghostVars,
                   envVars, apiVars>>

\* UPDATE schema_migrations SET run = true, failed = false
\* WHERE scriptname = ? AND time = exectime
MS_UpdateSuccess(n) ==
    /\ pc[n] = "ms_succ"
    /\ migrations' = Put(migrations, <<CurFile(n), exectime[n]>>,
            [migrations[<<CurFile(n), exectime[n]>>]
                EXCEPT !.run = TRUE, !.failed = FALSE])
    /\ last' = [last EXCEPT ![n] = "ran"]
    /\ exectime' = [exectime EXCEPT ![n] = 0]
    /\ Goto(n, "upd")
    /\ UNCHANGED <<now, keyspace, tables, requests, active, catalog, myReq,
                   myT, nomCount, wake, toReap, rmNext, phase, idx, ghostVars,
                   envVars, apiVars>>

\* That UPDATE raises: it is inside the try block, so the except branch of
\* migrateSchema runs.
MS_UpdateSuccessFail(n) ==
    /\ pc[n] = "ms_succ"
    /\ faults < MaxFaults
    /\ MayDisturb
    /\ faults' = faults + 1
    /\ Goto(n, "ms_fail")
    /\ UNCHANGED <<now, active, catalog, myReq, myT, nomCount, wake, toReap,
                   rmNext, phase, idx, exectime, last, stalls, crashes,
                   storeVars, ghostVars, apiVars>>

\* UPDATE schema_migrations SET run = false, failed = true, error = str(e)
\* WHERE scriptname = ? AND time = exectime; raise e.
MS_UpdateFailure(n) ==
    /\ pc[n] = "ms_fail"
    /\ migrations' = Put(migrations, <<CurFile(n), exectime[n]>>,
            [migrations[<<CurFile(n), exectime[n]>>]
                EXCEPT !.run = FALSE, !.failed = TRUE, !.error = "e"])
    /\ exectime' = [exectime EXCEPT ![n] = 0]
    /\ Goto(n, "rm_markfailed")
    /\ UNCHANGED <<now, keyspace, tables, requests, active, catalog, myReq,
                   myT, nomCount, wake, toReap, rmNext, phase, idx, last,
                   ghostVars, envVars, apiVars>>

\* ------------------------------------------- waitForMigrationCompletion
\* The test without its staleness half: only failed rows end the wait.
WaitStalled_FailedOnly(row, staleTime) == row.failed

\* The test without its comparison of lastupdate: any request in progress
\* ends the wait.
WaitStalled_InProgress(row, staleTime) == row.failed \/ row.inprogress

\* A row that ends the wait with "failed or stalled".
WaitStalled(row, staleTime) ==
    row.failed \/ (row.inprogress /\ row.lastupdate < staleTime)

\* A poll that reads no row: "we're finished waiting", setupDB returns.
Wait_Done(n) ==
    /\ pc[n] = "wait"
    /\ SelectRequests = <<>>
    /\ Goto(n, "done")
    /\ UNCHANGED <<now, active, catalog, myReq, myT, nomCount, wake, toReap,
                   rmNext, phase, idx, exectime, last, storeVars, ghostVars,
                   envVars, apiVars>>

\* A waiter that deletes the failed and stalled rows it reads before it
\* calls requestMigration.
Wait_Rerequest_Reaping(n) ==
    /\ pc[n] = "wait"
    /\ \E r \in DOMAIN requests : WaitStalled(requests[r], now - StaleAfter)
    /\ requests' = [r \in {x \in DOMAIN requests :
                            ~WaitStalled(requests[x], now - StaleAfter)}
                        |-> requests[r]]
    /\ Goto(n, "rm_read")
    /\ UNCHANGED <<now, keyspace, tables, migrations, active, catalog, myReq,
                   myT, nomCount, wake, toReap, rmNext, phase, idx, exectime,
                   last, ghostVars, envVars, apiVars>>

\* A poll that reads a failed or stalled row: requestMigration again.  (A
\* poll that reads only other rows leaves the node where it is.)
Wait_Rerequest(n) ==
    /\ pc[n] = "wait"
    /\ \E r \in DOMAIN requests : WaitStalled(requests[r], now - StaleAfter)
    /\ Goto(n, "rm_read")
    /\ UNCHANGED <<now, active, catalog, myReq, myT, nomCount, wake, toReap,
                   rmNext, phase, idx, exectime, last, storeVars, ghostVars,
                   envVars, apiVars>>

\* ----------------------------------------------------------- environment
\* A node dies; a history row it inserted and did not update stays
\* provisional.
Crash(n) ==
    /\ pc[n] \notin Stopped
    /\ crashes < MaxCrashes
    /\ MayDisturb
    /\ crashes' = crashes + 1
    /\ orphans' = IF pc[n] \in {"ms_exec", "ms_succ", "ms_fail"}
                  THEN orphans \cup {<<CurFile(n), exectime[n]>>}
                  ELSE orphans
    /\ Goto(n, "crashed")
    /\ UNCHANGED <<now, active, catalog, myReq, myT, nomCount, wake, toReap,
                   rmNext, phase, idx, exectime, last, ddl, execOK,
                   lateInsert, reapedLive, stalls, faults, storeVars,
                   apiVars>>

\* time.sleep(0.5), again and again: every live node is polling in
\* waitForMigrationCompletion, and the polls add up to more than StaleAfter
\* since the last heartbeat of a request in progress.
Lapse ==
    /\ \E n \in Nodes : pc[n] = "wait"
    /\ \A n \in Nodes : pc[n] \in Stopped \cup {"wait"}
    /\ \E r \in DOMAIN requests : requests[r].inprogress
    /\ \A r \in DOMAIN requests : requests[r].lastupdate >= now - StaleAfter
    /\ now' = now + StaleAfter + 1
    /\ UNCHANGED <<nodeVars, storeVars, ghostVars, envVars, apiVars>>

\* The same while a request that was never marked in progress is in the
\* table: the polls go on until its reqtime is more than StaleAfter old.
LapsePending ==
    /\ \E n \in Nodes : pc[n] = "wait"
    /\ \A n \in Nodes : pc[n] \in Stopped \cup {"wait"}
    /\ \E r \in DOMAIN requests :
            ~requests[r].inprogress /\ ~requests[r].failed
    /\ \A r \in DOMAIN requests : requests[r].reqtime >= now - StaleAfter
    /\ now' = now + StaleAfter + 1
    /\ UNCHANGED <<nodeVars, storeVars, ghostVars, envVars, apiVars>>

\* More than StaleAfter passes without any node taking a step.
Stall ==
    /\ stalls < MaxStalls
    /\ MayDisturb
    /\ stalls' = stalls + 1
    /\ now' = now + StaleAfter + 1
    /\ UNCHANGED <<crashes, faults, nodeVars, storeVars, ghostVars, apiVars>>

\* ============================================================ the REST API
\* (src/apis/users.py, src/apis/sessions.py, src/database/authdb.py,
\* src/passwordutils.py).  One action is one request, answered from the
\* state of the datastore; response records the request and its answer.

\* The organizations, user names, passwords and salts of the checked runs.
Orgs == {"a.net", "b.net"}
Names == {"alice", "bob"}
Accounts == Orgs \X Names
Passwords == {"p1", "p2"}
Salts == {<<"salt", 1>>, <<"salt", 2>>}

\* A null column, and Python's None.
None == <<>>

\* timedelta(days=7), in seconds.
ResetLifetime == 604800

\* The instants at which requests arrive: at once, a second later, and
\* just before, exactly at and just after the end of a reset's lifetime.
ClockValues == {1, ResetLifetime - 1, ResetLifetime, ResetLifetime + 1}

\* uuid.uuid4(): a value never generated before.
uuid4 == issued + 1

\* str(u) of a UUID u: its lower-case hexadecimal spelling.  A client may
\* send that spelling, the upper-case spelling of the same UUID, or text
\* that spells no UUID.
UuidStr(u) == <<"lower", u>>
ResetIdTexts ==
    ({"lower", "upper"} \X (1 .. MaxUuids)) \cup {<<"junk", 0>>}

\* passwordutils.hashPassword: a function of the password and the salt.
hashPassword(password, salt) == <<"argon2", password, salt>>

\* AuthDB.userExists: getUser returns a row.
userExists(a) == a \in DOMAIN users

\* AuthDB.getUserSalt and AuthDB.getUserHash: the column, None without row.
getUserSalt(a) == IF a \in DOMAIN users THEN users[a].salt ELSE None
getUserHash(a) == IF a \in DOMAIN users THEN users[a].hash ELSE None

\* AuthDB.setPassword: UPDATE users SET hash, salt (an upsert).
setPassword(a, passwordHash, salt) ==
    Put(users, a,
        IF a \in DOMAIN users
        THEN [users[a] EXCEPT !.hash = passwordHash, !.salt = salt]
        ELSE [email |-> None, parentuser |-> None, createdate |-> Null,
              hash |-> passwordHash, salt |-> salt])

\* A deletePasswordReset that leaves the record in place.
deletePasswordReset_Kept(a) == userpasswordresets

\* AuthDB.deletePasswordReset: DELETE FROM userpasswordresets.
deletePasswordReset(a) == Del(userpasswordresets, a)

\* The test accepting a record at the very end of its lifetime.
validatePasswordReset_AtEnd(a, resetid) ==
    /\ a \in DOMAIN userpasswordresets
    /\ userpasswordresets[a].requestdate + ResetLifetime >= now
    /\ UuidStr(userpasswordresets[a].resetid) = resetid

\* The test comparing the UUIDs instead of their spellings.
validatePasswordReset_AnyCase(a, resetid) ==
    /\ a \in DOMAIN userpasswordresets
    /\ userpasswordresets[a].requestdate + ResetLifetime > now
    /\ userpasswordresets[a].resetid = resetid[2]

\* AuthDB.validatePasswordReset.
validatePasswordReset(a, resetid) ==
    /\ a \in DOMAIN userpasswordresets
    /\ userpasswordresets[a].requestdate + ResetLifetime > now
    /\ UuidStr(userpasswordresets[a].resetid) = resetid

\* A direct call of AuthDB.validatePasswordReset.
ValidatePasswordReset_call ==
    \E a \in Accounts, resetid \in ResetIdTexts :
        /\ served < MaxRequests
        /\ served' = served + 1
        /\ response' = [op |-> "validatePasswordReset", account |-> a,
                        resetid |-> resetid,
                        result |-> validatePasswordReset(a, resetid)]
        /\ UNCHANGED <<now, users, userpasswordresets, orgsettings,
                       usersessions, sessionkeys, issued, consumed, outsideApi>>

\* RequestPasswordReset.post: POST /users/<u>@<o>/requestpasswordreset.
\* createPasswordReset inserts (org, username, dateof(now()), uuid4()) and
\* returns the resetid, or False when the INSERT raises.
RequestPasswordReset_post ==
    \E a \in Accounts, raises \in BOOLEAN :
        /\ served < MaxRequests
        /\ issued < MaxUuids
        /\ raises => userExists(a)
        /\ served' = served + 1
        /\ IF userExists(a)
           THEN /\ issued' = uuid4
                /\ userpasswordresets' =
                        IF raises THEN userpasswordresets
                        ELSE Put(userpasswordresets, a,
                                 [requestdate |-> now, resetid |-> uuid4])
                /\ response' = [op |-> "requestpasswordreset", account |-> a,
                                status |-> IF raises THEN 500 ELSE 200]
           ELSE /\ UNCHANGED <<issued, userpasswordresets>>
                /\ response' = [op |-> "requestpasswordreset", account |-> a,
                                status |-> 400]
        /\ UNCHANGED <<now, users, orgsettings, usersessions, sessionkeys,
                       consumed, outsideApi>>

\* CompletePasswordReset.post: POST /users/<u>@<o>/completepasswordreset.
\* The finally clause deletes the reset record whether setPassword raised
\* or not.
CompletePasswordReset_post ==
    \E a \in Accounts, resetid \in ResetIdTexts, password \in Passwords,
       salt \in Salts, raises \in BOOLEAN :
        LET valid == userExists(a) /\ validatePasswordReset(a, resetid)
            status == IF ~valid THEN 400 ELSE IF raises THEN 500 ELSE 200
        IN  /\ served < MaxRequests
            /\ raises => valid
            /\ ~valid => salt = <<"salt", 1>>
            /\ served' = served + 1
            /\ users' = IF status = 200
                        THEN setPassword(a, hashPassword(password, salt), salt)
                        ELSE users
            /\ userpasswordresets' = IF valid THEN deletePasswordReset(a)
                                     ELSE userpasswordresets
            /\ response' = [op |-> "completepasswordreset", account |-> a,
                            resetid |-> resetid, password |-> password,
                            salt |-> IF status = 200 THEN salt ELSE None,
                            status |-> status]
            /\ consumed' = IF status = 200
                           THEN consumed \cup {<<a, resetid>>}
                           ELSE consumed
            /\ UNCHANGED <<now, orgsettings, usersessions, sessionkeys,
                           issued, outsideApi>>

\* AuthDB.getOrgSetting(org, setting).current_rows: the values found.
getOrgSetting(org, setting) ==
    IF <<org, setting>> \in DOMAIN orgsettings
    THEN <<[value |-> orgsettings[<<org, setting>>]]>>
    ELSE <<>>

\* Python's ==, between a text column and the integer literal 0: a str
\* never equals an int.  Values are <<type, content>>.
PyEquals(x, y) == x[1] = y[1] /\ x[2] = y[2]

\* The values an operator may have stored under registrationOpen.
RegValues == {"0", "", "1"}

\* "len(regOpen) == 0 or regOpen[0].value == 0"
RegistrationClosed(regOpen) ==
    Len(regOpen) = 0 \/ PyEquals(<<"str", regOpen[1].value>>, <<"int", 0>>)

\* args['parentuser'].split('@'), unpacked into two names; '' and '' when
\* the text is None or does not have exactly one '@'.  A text is the
\* sequence of its parts between the '@'s.
SplitParent(parentuser) ==
    IF parentuser # None /\ Len(parentuser) = 2
    THEN [username |-> parentuser[1], org |-> parentuser[2]]
    ELSE [username |-> "", org |-> ""]
ParentTexts ==
    {None, <<"alice", "a.net">>, <<"bob", "a.net">>, <<"alice">>,
     <<"", "a.net">>}

\* The session keys a client may send: the keys issued, and one never issued.
KeyTexts == {<<"key", k>> : k \in 0 .. MaxUuids}

\* validateSessionKey(key): (valid, user, org) of a known key that has not
\* expired, (False, '', '') of any other.
validateSessionKey(key) ==
    IF key \in DOMAIN sessionkeys /\ sessionkeys[key].expiry > now
    THEN [valid |-> TRUE, user |-> sessionkeys[key].username,
          org |-> sessionkeys[key].org]
    ELSE [valid |-> FALSE, user |-> "", org |-> ""]

\* AuthDB.createUser: INSERT INTO users (org, username, email, parentuser,
\* createdate); the hash and the salt of an existing row are kept.
createUser(a, email, parentuser) ==
    Put(users, a,
        IF a \in DOMAIN users
        THEN [users[a] EXCEPT !.email = email, !.parentuser = parentuser,
                              !.createdate = now]
        ELSE [email |-> email, parentuser |-> parentuser, createdate |-> now,
              hash |-> None, salt |-> None])

\* Users.post checking the key's user and not the key's org.
UsersPostStatus_UserOnly(a, parentuser, key) ==
    LET parent == SplitParent(parentuser)
        sessionKey == IF key # None THEN validateSessionKey(key)
                   ELSE [valid |-> FALSE, user |-> "", org |-> ""]
    IN  IF userExists(a) THEN 400
        ELSE IF RegistrationClosed(getOrgSetting(a[1], "registrationOpen"))
        THEN 400
        ELSE IF /\ parentuser # None
                /\ \/ parent.username = ""
                   \/ parent.org = ""
                   \/ ~userExists(<<parent.org, parent.username>>)
        THEN 400
        ELSE IF parentuser # None /\ key = None THEN 401
        ELSE IF /\ parentuser # None
                /\ ~(sessionKey.valid /\ sessionKey.user = parent.username)
        THEN 403
        ELSE 200

\* The status Users.post answers with, the INSERT not raising; 200 is the
\* branch that calls createUser.
UsersPostStatus(a, parentuser, key) ==
    LET parent == SplitParent(parentuser)
        sessionKey == IF key # None THEN validateSessionKey(key)
                   ELSE [valid |-> FALSE, user |-> "", org |-> ""]
    IN  IF userExists(a) THEN 400
        ELSE IF RegistrationClosed(getOrgSetting(a[1], "registrationOpen"))
        THEN 400
        ELSE IF /\ parentuser # None
                /\ \/ parent.username = ""
                   \/ parent.org = ""
                   \/ ~userExists(<<parent.org, parent.username>>)
        THEN 400
        ELSE IF parentuser # None /\ key = None THEN 401
        ELSE IF /\ parentuser # None
                /\ ~(/\ sessionKey.valid
                     /\ sessionKey.user = parent.username
                     /\ sessionKey.org = parent.org)
        THEN 403
        ELSE 200

\* Users.post: POST /users.
Users_post ==
    \E a \in Accounts, parentuser \in ParentTexts,
       key \in KeyTexts \cup {None}, raises \in BOOLEAN :
        LET status == UsersPostStatus(a, parentuser, key)
        IN  /\ served < MaxRequests
            /\ raises => status = 200
            /\ served' = served + 1
            /\ users' = IF status = 200 /\ ~raises
                        THEN createUser(a, <<"mail">>, parentuser)
                        ELSE users
            /\ response' = [op |-> "users_post", account |-> a,
                            parentuser |-> parentuser, key |-> key,
                            status |-> IF raises THEN 500 ELSE status]
            /\ UNCHANGED <<now, userpasswordresets, orgsettings, usersessions,
                           sessionkeys, issued, consumed, outsideApi>>

\* POST /users handled by two workers of the server at once: one action
\* is the part of Users.post up to a write or a response.
Workers == {1, 2}
Emails == {<<"mail">>, <<"other">>}

\* A worker receives POST /users for an account, without parent user.
UP_Call(w) ==
    /\ posts[w].pc = "idle"
    /\ posts[w].calls < MaxCalls
    /\ \E a \in Accounts, email \in Emails :
          posts' = [posts EXCEPT ![w] =
                        [pc |-> "up_check", account |-> a, email |-> email,
                         status |-> 0, calls |-> posts[w].calls + 1]]
    /\ UNCHANGED <<users, outsidePost>>

\* The tests of Users.post, from AuthDB.userExists to the last elif: the
\* worker answers 400, 401 or 403, or goes on to AuthDB.createUser.
UP_Check(w) ==
    /\ posts[w].pc = "up_check"
    /\ LET status == UsersPostStatus(posts[w].account, None, None)
       IN posts' = IF status = 200
                   THEN [posts EXCEPT ![w].pc = "up_insert"]
                   ELSE [posts EXCEPT ![w].pc = "idle", ![w].status = status]
    /\ UNCHANGED <<users, outsidePost>>

\* AuthDB.createUser, an INSERT without IF NOT EXISTS, and the response
\* 'User ... created.' (status 200); 500 when the INSERT raises.
UP_Insert(w) ==
    /\ posts[w].pc = "up_insert"
    /\ \/ /\ users' = createUser(posts[w].account, posts[w].email, None)
          /\ posts' = [posts EXCEPT ![w].pc = "idle", ![w].status = 200]
       \/ /\ posts' = [posts EXCEPT ![w].pc = "idle", ![w].status = 500]
          /\ UNCHANGED users
    /\ UNCHANGED outsidePost

\* AuthDB.validatePassword.
validatePassword(a, password) ==
    /\ getUserSalt(a) # None
    /\ hashPassword(password, getUserSalt(a)) = getUserHash(a)

\* Sessions.post: POST /sessions/<u>@<o>.  createUserSession stores a
\* session under a new sessionid, createUserSessionKey a new key bound to
\* it; the key expires at some later instant.
Sessions_post ==
    \E a \in Accounts, password \in Passwords, expiry \in {1, ResetLifetime} :
        /\ served < MaxRequests
        /\ issued < MaxUuids
        /\ served' = served + 1
        /\ IF userExists(a) /\ validatePassword(a, password)
           THEN /\ expiry > now
                /\ issued' = uuid4
                /\ usersessions' = usersessions \cup {<<a[1], a[2], uuid4>>}
                /\ sessionkeys' = Put(sessionkeys, <<"key", uuid4>>,
                        [org |-> a[1], username |-> a[2],
                         sessionid |-> uuid4, expiry |-> expiry])
                /\ response' = [op |-> "sessions_post", account |-> a,
                                status |-> 200, id |-> uuid4,
                                key |-> <<"key", uuid4>>]
           ELSE /\ expiry = ResetLifetime
                /\ UNCHANGED <<issued, usersessions, sessionkeys>>
                /\ response' = [op |-> "sessions_post", account |-> a,
                                status |-> IF userExists(a) THEN 400 ELSE 404]
        /\ UNCHANGED <<now, users, userpasswordresets, orgsettings, consumed,
                       outsideApi>>

\* getUserSessions(org, user): the user's sessions.
getUserSessions(a) == {s \in usersessions : s[1] = a[1] /\ s[2] = a[2]}

\* getUserSessionByKey(key): the session the key is bound to, or None.
getUserSessionByKey(key) ==
    LET found == IF key \in DOMAIN sessionkeys
                 THEN {s \in usersessions :
                          s = <<sessionkeys[key].org, sessionkeys[key].username,
                                sessionkeys[key].sessionid>>}
                 ELSE {}
    IN  IF found = {} THEN None ELSE CHOOSE s \in found : TRUE

\* getUserSession(org, user, sid): that session, or None.
getUserSession(a, sessionId) ==
    IF <<a[1], a[2], sessionId>> \in usersessions
    THEN <<a[1], a[2], sessionId>>
    ELSE None

\* Sessions.get answering every valid key, whoever its user is.
Sessions_get_AnyUser ==
    \E a \in Accounts, key \in KeyTexts :
        LET sessionKey == validateSessionKey(key)
        IN  /\ served < MaxRequests
            /\ served' = served + 1
            /\ response' =
                    IF ~sessionKey.valid
                    THEN [op |-> "sessions_get", account |-> a, key |-> key,
                          status |-> 401, sessions |-> {}]
                    ELSE [op |-> "sessions_get", account |-> a, key |-> key,
                          status |-> 200, sessions |-> getUserSessions(a)]
            /\ UNCHANGED <<now, users, userpasswordresets, orgsettings,
                           usersessions, sessionkeys, issued, consumed,
                           outsideApi>>

\* Sessions.get: GET /sessions/<u>@<o>.
Sessions_get ==
    \E a \in Accounts, key \in KeyTexts :
        LET sessionKey == validateSessionKey(key)
        IN  /\ served < MaxRequests
            /\ served' = served + 1
            /\ response' =
                    IF ~sessionKey.valid
                    THEN [op |-> "sessions_get", account |-> a, key |-> key,
                          status |-> 401, sessions |-> {}]
                    ELSE IF ~(a[2] = sessionKey.user /\ a[1] = sessionKey.org)
                    THEN [op |-> "sessions_get", account |-> a, key |-> key,
                          status |-> 403, sessions |-> {}]
                    ELSE [op |-> "sessions_get", account |-> a, key |-> key,
                          status |-> 200, sessions |-> getUserSessions(a)]
            /\ UNCHANGED <<now, users, userpasswordresets, orgsettings,
                           usersessions, sessionkeys, issued, consumed,
                           outsideApi>>

\* Session.get: GET /sessions/<u>@<o> (sessionId None) and
\* GET /sessions/<u>@<o>/<sid>.
Session_get ==
    \E a \in Accounts, key \in KeyTexts, sessionId \in 0 .. MaxUuids :
        LET sessionKey == validateSessionKey(key)
            found == IF sessionId = 0 THEN getUserSessionByKey(key)
                     ELSE getUserSession(a, sessionId)
            status == IF ~sessionKey.valid THEN 401
                      ELSE IF ~(sessionKey.user = a[2] /\ sessionKey.org = a[1])
                      THEN 403
                      ELSE IF found # None THEN 200
                      ELSE IF sessionId = 0 THEN 500 ELSE 404
        IN  /\ served < MaxRequests
            /\ served' = served + 1
            /\ response' = [op |-> "session_get", account |-> a, key |-> key,
                            sessionId |-> sessionId, status |-> status,
                            sessions |-> IF status = 200 THEN {found} ELSE {}]
            /\ UNCHANGED <<now, users, userpasswordresets, orgsettings,
                           usersessions, sessionkeys, issued, consumed,
                           outsideApi>>

\* Time passes between two requests.
Pass ==
    \E t \in ClockValues :
        /\ t > now
        /\ now' = t
        /\ UNCHANGED <<authVars, outsideApi>>

\* ===================================================== CassandraCluster
\* (src/database/cassandra.py).  The class attributes cluster, session and
\* preparedStmts are shared by the threads of the process; the code takes
\* no lock, so the threads interleave between any two statements.  One
\* action is one statement of getSession or getPreparedStatement.
Threads == {1, 2}
KeyspaceArgs == {None, <<"authdb">>}
Statements == {"SELECT", "INSERT"}

\* "sessionLookup = '*' if keyspace is None else keyspace"
SessionLookup(ks) == IF ks = None THEN "*" ELSE ks[1]

IdleFrame(n) ==
    [pc |-> "idle", op |-> "none", lookup |-> "*", statement |-> "none",
     calls |-> n]
At(t, pcs) == frame[t].pc \in pcs
Jump(t, to) == frame' = [frame EXCEPT ![t].pc = to]
Return(t) == frame' = [frame EXCEPT ![t] = IdleFrame(frame[t].calls)]

\* What thread t finds registered by another thread.
OthersSessions(t) == {l \in DOMAIN session : session[l].by # t}
OthersStmts(t, l) ==
    IF l \in DOMAIN preparedStmts
    THEN {st \in DOMAIN preparedStmts[l] : preparedStmts[l][st].by # t}
    ELSE {}

\* A thread calls CassandraCluster.getSession(keyspace) or
\* CassandraCluster.getPreparedStatement(statement, keyspace).
GW_Call(t) ==
    /\ At(t, {"idle"})
    /\ frame[t].calls < MaxCalls
    /\ \E ks \in KeyspaceArgs, st \in Statements,
          op \in {"getSession", "getPreparedStatement"} :
            /\ op = "getSession" => st = "SELECT"
            /\ frame' = [frame EXCEPT ![t] =
                    [pc |-> IF op = "getSession" THEN "gs_lookup"
                            ELSE "ps_lookup",
                     op |-> op, lookup |-> SessionLookup(ks),
                     statement |-> IF op = "getSession" THEN "none" ELSE st,
                     calls |-> frame[t].calls + 1]]
    /\ UNCHANGED <<cluster, session, preparedStmts, made, discarded, outsideGw>>

\* "if sessionLookup not in CassandraCluster.session:"
GS_Lookup(t) ==
    /\ At(t, {"gs_lookup"})
    /\ Jump(t, IF frame[t].lookup \notin DOMAIN session THEN "gs_cluster"
               ELSE "gs_return")
    /\ UNCHANGED <<cluster, session, preparedStmts, made, discarded, outsideGw>>

\* "if CassandraCluster.cluster is None:"
GS_Cluster(t) ==
    /\ At(t, {"gs_cluster"})
    /\ Jump(t, IF cluster = 0 THEN "gs_newcluster" ELSE "gs_connect")
    /\ UNCHANGED <<cluster, session, preparedStmts, made, discarded, outsideGw>>

\* "CassandraCluster.cluster = Cluster(...)"
GS_NewCluster(t) ==
    /\ At(t, {"gs_newcluster"})
    /\ made' = [made EXCEPT !.clusters = @ + 1]
    /\ cluster' = made.clusters + 1
    /\ Jump(t, "gs_resetsessions")
    /\ UNCHANGED <<session, preparedStmts, discarded, outsideGw>>

\* "CassandraCluster.session = {}"
GS_ResetSessions(t) ==
    /\ At(t, {"gs_resetsessions"})
    /\ session' = EmptyTable
    /\ discarded' = (discarded \/ OthersSessions(t) # {})
    /\ Jump(t, "gs_resetstmts")
    /\ UNCHANGED <<cluster, preparedStmts, made, outsideGw>>

\* "CassandraCluster.preparedStmts = {}"
GS_ResetStmts(t) ==
    /\ At(t, {"gs_resetstmts"})
    /\ preparedStmts' = EmptyTable
    /\ discarded' = (discarded
                        \/ \E l \in DOMAIN preparedStmts : OthersStmts(t, l) # {})
    /\ Jump(t, "gs_connect")
    /\ UNCHANGED <<cluster, session, made, outsideGw>>

\* "CassandraCluster.session[sessionLookup] =
\*      CassandraCluster.cluster.connect(keyspace)"
GS_Connect(t) ==
    /\ At(t, {"gs_connect"})
    /\ made' = [made EXCEPT !.sessions[frame[t].lookup] = @ + 1]
    /\ session' = Put(session, frame[t].lookup,
                      [obj |-> made.sessions[frame[t].lookup] + 1, by |-> t,
                       of |-> cluster])
    /\ discarded' = (discarded \/ frame[t].lookup \in OthersSessions(t))
    /\ Jump(t, "gs_initstmts")
    /\ UNCHANGED <<cluster, preparedStmts, outsideGw>>

\* "CassandraCluster.preparedStmts[sessionLookup] = {}"
GS_InitStmts(t) ==
    /\ At(t, {"gs_initstmts"})
    /\ preparedStmts' = Put(preparedStmts, frame[t].lookup, EmptyTable)
    /\ discarded' = (discarded \/ OthersStmts(t, frame[t].lookup) # {})
    /\ Jump(t, "gs_return")
    /\ UNCHANGED <<cluster, session, made, outsideGw>>

\* "return CassandraCluster.session[sessionLookup]": a KeyError when
\* another thread has emptied the map; getPreparedStatement goes on with
\* the session it gets.
GS_Return(t) ==
    /\ At(t, {"gs_return"})
    /\ IF frame[t].lookup \in DOMAIN session
            /\ frame[t].op = "getPreparedStatement"
       THEN Jump(t, "ps_store")
       ELSE Return(t)
    /\ UNCHANGED <<cluster, session, preparedStmts, made, discarded, outsideGw>>

\* "if sessionLookup not in CassandraCluster.preparedStmts:
\*      CassandraCluster.preparedStmts = {}"
PS_Lookup(t) ==
    /\ At(t, {"ps_lookup"})
    /\ IF frame[t].lookup \notin DOMAIN preparedStmts
       THEN /\ preparedStmts' = EmptyTable
            /\ discarded' = (discarded \/ \E l \in DOMAIN preparedStmts :
                                            OthersStmts(t, l) # {})
       ELSE UNCHANGED <<preparedStmts, discarded>>
    /\ Jump(t, "ps_test")
    /\ UNCHANGED <<cluster, session, made, outsideGw>>

\* "if statement not in CassandraCluster.preparedStmts[sessionLookup]:"
\* a KeyError when the map has no entry for the lookup.
PS_Test(t) ==
    /\ At(t, {"ps_test"})
    /\ IF frame[t].lookup \notin DOMAIN preparedStmts
       THEN Return(t)
       ELSE Jump(t, IF frame[t].statement
                            \notin DOMAIN preparedStmts[frame[t].lookup]
                    THEN "gs_lookup" ELSE "ps_return")
    /\ UNCHANGED <<cluster, session, preparedStmts, made, discarded, outsideGw>>

\* "CassandraCluster.preparedStmts[sessionLookup][statement] =
\*      session.prepare(statement)": a KeyError without entry for the lookup.
PS_Store(t) ==
    /\ At(t, {"ps_store"})
    /\ IF frame[t].lookup \notin DOMAIN preparedStmts
       THEN /\ Return(t)
            /\ UNCHANGED <<preparedStmts, discarded>>
       ELSE /\ preparedStmts' = [preparedStmts EXCEPT ![frame[t].lookup] =
                    Put(@, frame[t].statement, [by |-> t])]
            /\ discarded' = (discarded \/ frame[t].statement
                                \in OthersStmts(t, frame[t].lookup))
            /\ Jump(t, "ps_return")
    /\ UNCHANGED <<cluster, session, made, outsideGw>>

\* "return CassandraCluster.preparedStmts[sessionLookup][statement]"
PS_Return(t) ==
    /\ At(t, {"ps_return"})
    /\ Return(t)
    /\ UNCHANGED <<cluster, session, preparedStmts, made, discarded, outsideGw>>

\* ============================================================= Settings
\* (src/settings.py).  The keys of a map in the order a.keys() yields them.
ConfigKeys == <<"k1", "k2">>

\* The maps of depth 1 and 2 over ConfigKeys, and the values a JSON file
\* may hold.
ConfigMaps ==
    LET Scalars == {Scalar(1), Scalar(2)}
        FlatMaps == UNION {[K -> Scalars] : K \in SUBSET {"k1", "k2"}}
        FlatValues == Scalars \cup {Map(f) : f \in FlatMaps}
    IN  {Map(f) : f \in UNION {[K -> FlatValues] : K \in SUBSET {"k1", "k2"}}}
JsonValues == {Scalar(1), NoFile} \cup ConfigMaps

\* mergeConfig replacing a nested map by the file's value.
mergeConfig_Shallow(a, b) ==
    IF a.v = <<>> THEN [val |-> a, raised |-> FALSE]
    ELSE IF ~IsMap(b) THEN [val |-> a, raised |-> TRUE]
    ELSE [val |-> Map([k \in DOMAIN a.v |->
                        IF k \in DOMAIN b.v THEN b.v[k] ELSE a.v[k]]),
          raised |-> FALSE]

\* mergeConfig(a, b), a a map: the map a is left as (it is updated in
\* place), and whether a TypeError was raised on the way: "key in b" and
\* "b[key]" need b to be a map.  MergeKeys is the loop from the i-th key on.
RECURSIVE mergeConfig(_, _), MergeKeys(_, _, _)
MergeKeys(a, b, i) ==
    IF i > Len(ConfigKeys) THEN [val |-> Map(a), raised |-> FALSE]
    ELSE LET key == ConfigKeys[i]
         IN  IF key \notin DOMAIN a THEN MergeKeys(a, b, i + 1)
             ELSE IF ~IsMap(b) THEN [val |-> Map(a), raised |-> TRUE]
             ELSE IF key \notin DOMAIN b.v THEN MergeKeys(a, b, i + 1)
             ELSE IF IsMap(a[key])
             THEN LET r == mergeConfig(a[key], b.v[key])
                  IN  IF r.raised
                      THEN [val |-> Map([a EXCEPT ![key] = r.val]),
                            raised |-> TRUE]
                      ELSE MergeKeys([a EXCEPT ![key] = r.val], b, i + 1)
             ELSE MergeKeys([a EXCEPT ![key] = b.v[key]], b, i + 1)
mergeConfig(a, b) == MergeKeys(a.v, b, 1)

\* Settings.getConfig, not loaded yet: the file, when there is one, is
\* merged into Settings.config; loaded is set unless mergeConfig raised.
Settings_getConfig ==
    /\ ~loaded
    /\ LET r == IF sysConfig = NoFile THEN [val |-> config, raised |-> FALSE]
                ELSE mergeConfig(config, sysConfig)
       IN  /\ config' = r.val
           /\ loaded' = ~r.raised
           /\ \/ ~r.raised
              \/ r.val # config
    /\ UNCHANGED <<sysConfig, remerged, outsideCfg>>

\* mergeConfig applied to the merged configuration and the same file.
Settings_mergeAgain ==
    /\ loaded
    /\ sysConfig # NoFile
    /\ remerged = NotMerged
    /\ remerged' = mergeConfig(config, sysConfig)
    /\ UNCHANGED <<config, loaded, sysConfig, outsideCfg>>

\* ===================================================== createDefaultOrg
\* (src/database/authdb.py 22-84; setupDefaultOrg of
\* src/database/cassandra.py is the same procedure with its statements
\* inline).  One action is one statement sent to the datastore; a read
\* that repeats the read before it, after the caller's own write, is part
\* of the step that follows.
Callers == {1, 2}

\* The invocation of caller c moves to another statement; w counts the
\* writes it has made.
CdoGoto(c, to, w) == cdo' = [cdo EXCEPT ![c].pc = to, ![c].wrote = @ + w]

\* createDefaultOrg returns (completed), or raises: the caller is idle
\* again.  An invocation that completes having overlapped no other settles
\* the default org.
CdoReturn(c, completed, w) ==
    /\ cdo' = [cdo EXCEPT ![c].pc = "idle", ![c].wrote = @ + w]
    /\ cdoLog' = [cdoLog EXCEPT
                    !.completed = @ \/ completed,
                    !.settled = @ \/ (completed /\ cdo[c].alone)]

\* A caller invokes createDefaultOrg(orgName, adminUser, adminEmail).
CDO_Call(c) ==
    /\ cdo[c].pc = "idle"
    /\ cdo[c].calls < MaxCalls
    /\ \E orgName \in Orgs, adminUser \in Names :
          cdo' = [d \in Callers |->
                    IF d = c
                    THEN [pc |-> "cdo_default", orgName |-> orgName,
                          adminUser |-> adminUser, defaultOrg |-> "",
                          late |-> cdoLog.completed,
                          further |-> cdoLog.settled,
                          alone |-> \A e \in Callers : cdo[e].pc = "idle",
                          wrote |-> 0, calls |-> cdo[c].calls + 1]
                    ELSE [cdo[d] EXCEPT !.alone = FALSE]]
    /\ UNCHANGED <<globalsettings, orgs, cdoLog, users, orgsettings,
                   outsideCdo>>

\* "defaultOrg = AuthDB.getGlobalSetting('defaultorg').current_rows" and
\* "if len(defaultOrg) == 0".
CDO_Default(c) ==
    /\ cdo[c].pc = "cdo_default"
    /\ cdo' = IF "defaultorg" \in DOMAIN globalsettings
              THEN [cdo EXCEPT ![c].pc = "cdo_org",
                               ![c].defaultOrg = globalsettings["defaultorg"]]
              ELSE [cdo EXCEPT ![c].pc = "cdo_setdefault"]
    /\ UNCHANGED <<globalsettings, orgs, cdoLog, users, orgsettings,
                   outsideCdo>>

\* "AuthDB.setGlobalSetting('defaultorg', orgName)": an INSERT, which
\* replaces the value another caller has stored meanwhile.
CDO_SetDefault(c) ==
    /\ cdo[c].pc = "cdo_setdefault"
    /\ globalsettings' = Put(globalsettings, "defaultorg", cdo[c].orgName)
    /\ CdoGoto(c, "cdo_default", 1)
    /\ UNCHANGED <<orgs, cdoLog, users, orgsettings, outsideCdo>>

\* "org = AuthDB.getOrg(defaultOrg[0].value).current_rows" and
\* "if len(org) == 0".
CDO_Org(c) ==
    /\ cdo[c].pc = "cdo_org"
    /\ CdoGoto(c, IF cdo[c].defaultOrg \in DOMAIN orgs THEN "cdo_admins"
                  ELSE "cdo_createorg", 0)
    /\ UNCHANGED <<globalsettings, orgs, cdoLog, users, orgsettings,
                   outsideCdo>>

\* "AuthDB.createOrg(defaultOrg[0].value, None)": createOrg binds one
\* value to the two markers of its INSERT, which the driver either rejects
\* (createDefaultOrg raises) or sends with parentorg unset.
CDO_CreateOrg(c) ==
    /\ cdo[c].pc = "cdo_createorg"
    /\ \/ /\ orgs' = Put(orgs, cdo[c].defaultOrg, [parentorg |-> None])
          /\ CdoGoto(c, "cdo_admins", 1)
          /\ UNCHANGED cdoLog
       \/ /\ CdoReturn(c, FALSE, 0)
          /\ UNCHANGED orgs
    /\ UNCHANGED <<globalsettings, users, orgsettings, outsideCdo>>

\* createDefaultOrg looking for the admins of the org it was called with.
CDO_Admins_OwnOrg(c) ==
    /\ cdo[c].pc = "cdo_admins"
    /\ IF Len(getOrgSetting(cdo[c].orgName, "admins")) = 0
       THEN CdoGoto(c, "cdo_setadmins", 0) /\ UNCHANGED cdoLog
       ELSE CdoReturn(c, TRUE, 0)
    /\ UNCHANGED <<globalsettings, orgs, users, orgsettings, outsideCdo>>

\* "orgAdmins = AuthDB.getOrgSetting(org[0].org, 'admins').current_rows"
\* and "if len(orgAdmins) == 0"; with admins the invocation returns.
CDO_Admins(c) ==
    /\ cdo[c].pc = "cdo_admins"
    /\ IF Len(getOrgSetting(cdo[c].defaultOrg, "admins")) = 0
       THEN CdoGoto(c, "cdo_setadmins", 0) /\ UNCHANGED cdoLog
       ELSE CdoReturn(c, TRUE, 0)
    /\ UNCHANGED <<globalsettings, orgs, users, orgsettings, outsideCdo>>

\* "AuthDB.setOrgSetting(org[0].org, 'admins', adminUser@org)".
CDO_SetAdmins(c) ==
    /\ cdo[c].pc = "cdo_setadmins"
    /\ orgsettings' = Put(orgsettings, <<cdo[c].defaultOrg, "admins">>,
                          <<cdo[c].adminUser, cdo[c].defaultOrg>>)
    /\ CdoGoto(c, "cdo_user", 1)
    /\ UNCHANGED <<globalsettings, orgs, cdoLog, users, outsideCdo>>

\* "if not AuthDB.userExists(org[0].org, adminUser)"; with the user the
\* invocation returns.
CDO_User(c) ==
    /\ cdo[c].pc = "cdo_user"
    /\ IF userExists(<<cdo[c].defaultOrg, cdo[c].adminUser>>)
       THEN CdoReturn(c, TRUE, 0)
       ELSE CdoGoto(c, "cdo_createuser", 0) /\ UNCHANGED cdoLog
    /\ UNCHANGED <<globalsettings, orgs, users, orgsettings, outsideCdo>>

\* "AuthDB.createUser(org[0].org, adminUser, adminEmail, None)", and the
\* invocation returns.
CDO_CreateUser(c) ==
    /\ cdo[c].pc = "cdo_createuser"
    /\ users' = createUser(<<cdo[c].defaultOrg, cdo[c].adminUser>>,
                           <<"mail">>, None)
    /\ CdoReturn(c, TRUE, 1)
    /\ UNCHANGED <<globalsettings, orgs, orgsettings, outsideCdo>>

\* The process dies inside createDefaultOrg: what the invocation has
\* written stays, the rest of it is never executed, and the caller may
\* call again after the restart.
CDO_Interrupt(c) ==
    /\ cdo[c].pc # "idle"
    /\ crashes < MaxCrashes
    /\ crashes' = crashes + 1
    /\ CdoReturn(c, FALSE, 0)
    /\ UNCHANGED <<now, storeVars, nodeVars, ghostVars, stalls, faults,
                   authVars, gwVars, cfgVars, globalsettings, orgs, posts>>

\* createDefaultOrg called while no other invocation is under way.
CDO_CallSerial(c) ==
    /\ \A d \in Callers \ {c} : cdo[d].pc = "idle"
    /\ CDO_Call(c)

\* ------------------------------------------------------- specifications
\* The steps of a run in which no statement raises and no row is stale.
Step(n) ==
    \/ SD_Setup(n)
    \/ RM_Read(n) \/ RM_Insert(n) \/ RM_Reread(n)
    \/ RM_Mark(n) \/ RM_LoserDelete(n) \/ RM_Delete(n)
    \/ UpdateReq(n) \/ BL_Check(n) \/ BL_Exec(n) \/ BL_Recheck(n)
    \/ MS_Hist(n) \/ MS_Insert(n) \/ MS_Exec(n) \/ MS_UpdateSuccess(n)
    \/ Wait_Done(n)

\* The steps that follow a failure, a crash or a stall.
FailStep(n) ==
    \/ RM_Reap(n)
    \/ BL_ExecFail(n)
    \/ MS_ExecFail(n) \/ MS_UpdateSuccessFail(n) \/ MS_UpdateFailure(n)
    \/ RM_MarkFailed(n) \/ Wait_Rerequest(n)

\* Any environment: crashes, failing statements, stalls of a minute.
Next ==
    \/ \E n \in Nodes : Step(n) \/ FailStep(n) \/ Crash(n)
    \/ Tick
    \/ Stall
Init == InitWith({1, 2}, SmallCatalog)
Spec == Init /\ [][Next]_vars

\* Normal operation: no node crashes, no statement raises, and no node
\* stalls for a staleness period; the nodes interleave freely otherwise.
NextTimely ==
    \/ \E n \in Nodes : Step(n)
    \/ Tick
InitTimely == InitWith(Nodes, SmallCatalog) \/ InitWith({1, 2}, FullCatalog)
SpecTimely == InitTimely /\ [][NextTimely]_vars

\* Statements may raise and scripts may fail, but no node crashes or stalls.
NextFault ==
    \/ \E n \in Nodes : Step(n) \/ FailStep(n)
    \/ Tick
InitFault == InitWith(Nodes, TinyCatalog) \/ InitWith({1, 2}, SmallCatalog)
SpecFault == InitFault /\ [][NextFault]_vars

\* Two nodes call setupDB on a keyspace in which processes that have since
\* died left up to two request rows behind, each of any kind of LeftRows:
\* the clock reads StartTime.  No node crashes and no statement raises.
StartTime == 100
LeftRows ==
    { [reqtime |-> StartTime, inprogress |-> FALSE, failed |-> FALSE,
       lastupdate |-> StartTime],
      [reqtime |-> StartTime - StaleAfter, inprogress |-> FALSE,
       failed |-> FALSE, lastupdate |-> StartTime - StaleAfter],
      [reqtime |-> StartTime - StaleAfter - 1, inprogress |-> FALSE,
       failed |-> FALSE, lastupdate |-> StartTime - StaleAfter - 1],
      [reqtime |-> StartTime - StaleAfter - 1, inprogress |-> TRUE,
       failed |-> FALSE, lastupdate |-> StartTime],
      [reqtime |-> StartTime - StaleAfter - 1, inprogress |-> TRUE,
       failed |-> FALSE, lastupdate |-> StartTime - StaleAfter],
      [reqtime |-> StartTime - StaleAfter - 2, inprogress |-> TRUE,
       failed |-> FALSE, lastupdate |-> StartTime - StaleAfter - 1],
      [reqtime |-> StartTime, inprogress |-> FALSE, failed |-> TRUE,
       lastupdate |-> StartTime] }
LeftIds == {r \in ReqIds : Owner(r) = 3}
InitStale ==
    /\ now = StartTime
    /\ keyspace = TRUE
    /\ tables = {"schema_migrations", "schema_migration_requests"}
    /\ requests \in UNION {[R -> LeftRows] : R \in SUBSET LeftIds}
    /\ migrations = EmptyTable
    /\ active = {1, 2}
    /\ catalog = SmallCatalog
    /\ pc = [n \in Nodes |-> IF n \in {1, 2} THEN "setup" ELSE "idle"]
    /\ myReq = [n \in Nodes |-> 0]
    /\ myT = [n \in Nodes |-> 0]
    /\ nomCount = [n \in Nodes |-> 0]
    /\ wake = [n \in Nodes |-> 0]
    /\ toReap = [n \in Nodes |-> {}]
    /\ rmNext = [n \in Nodes |-> "none"]
    /\ phase = [n \in Nodes |-> "none"]
    /\ idx = [n \in Nodes |-> 0]
    /\ exectime = [n \in Nodes |-> 0]
    /\ last = [n \in Nodes |-> "none"]
    /\ ddl = [t \in AllTables |-> 0]
    /\ execOK = [s \in AllScripts |-> 0]
    /\ lateInsert = FALSE
    /\ reapedLive = FALSE
    /\ orphans = {}
    /\ stalls = 0
    /\ crashes = 0
    /\ faults = 0
    /\ InitApiIdle
    /\ InitGateway
    /\ InitSettings({DefaultConfig}, {NoFile})
    /\ InitDefaultOrg
NextStale ==
    \/ \E n \in Nodes : Step(n) \/ RM_Reap(n) \/ Wait_Rerequest(n)
    \/ Tick
    \/ Lapse
SpecStale == InitStale /\ [][NextStale]_vars

\* The same start, and a DELETE of the reap loop may raise.
NextReapFail ==
    \/ NextStale
    \/ \E n \in Nodes : RM_ReapFail(n)
SpecReapFail == InitStale /\ [][NextReapFail]_vars

\* Two nodes and the catalog of two baselines and two scripts, listed
\* out of order: statements may raise and scripts may fail.
SpecOrder == InitWith({1, 2}, FullCatalog) /\ [][NextFault]_vars

\* setupDB with CREATE TABLE statements that may raise.
NextSetup ==
    \/ \E n \in Nodes :
            \/ Step(n)
            \/ SD_SetupFail(n) \/ RM_ReadNoTable(n) \/ MS_HistNoTable(n)
            \/ RM_Reap(n) \/ RM_MarkFailed(n) \/ Wait_Rerequest(n)
    \/ Tick
SpecSetup == InitWith({1, 2}, SmallCatalog) /\ [][NextSetup]_vars

\* Normal operation with every node and the clock making progress.
LiveStep(n) == Step(n) \/ RM_Reap(n) \/ Wait_Rerequest(n)
InitTimelyLive == InitWith(Nodes, TinyCatalog) \/ InitWith({1, 2}, FullCatalog)
SpecTimelyLive ==
    /\ InitTimelyLive
    /\ [][NextTimely]_vars
    /\ WF_vars(NextTimely)

\* Nodes may crash; the surviving nodes and the clock make progress.
NextCrash ==
    \/ \E n \in Nodes : LiveStep(n) \/ Crash(n)
    \/ Tick
    \/ Lapse
InitCrash == InitWith({1, 2}, SmallCatalog)
SpecCrashLive ==
    /\ InitCrash
    /\ [][NextCrash]_vars
    /\ \A n \in Nodes : WF_vars(LiveStep(n))
    /\ WF_vars(Tick)
    /\ WF_vars(Lapse)

\* The same, the clock also moving on while a waiter polls a table that
\* holds a request never marked in progress.
NextPending ==
    \/ \E n \in Nodes : LiveStep(n) \/ Crash(n)
    \/ Tick
    \/ Lapse
    \/ LapsePending
SpecPendingLive ==
    /\ InitCrash
    /\ [][NextPending]_vars
    /\ \A n \in Nodes : WF_vars(LiveStep(n))
    /\ WF_vars(Tick)
    /\ WF_vars(Lapse)
    /\ WF_vars(LapsePending)

\* The REST API serving requests, after every node's setupDB: the users
\* table holds the default admin, or two users of the same name in two
\* orgs who have set passwords; an operator may have stored any of
\* RegValues as an org's registrationOpen.
AdminOnly ==
    <<"a.net", "alice">> :>
        [email |-> <<"mail">>, parentuser |-> None, createdate |-> 0,
         hash |-> None, salt |-> None]
TwoUsers ==
    (<<"a.net", "alice">> :>
        [email |-> <<"mail">>, parentuser |-> None, createdate |-> 0,
         hash |-> hashPassword("p1", <<"salt", 1>>), salt |-> <<"salt", 1>>])
    @@ (<<"b.net", "alice">> :>
        [email |-> <<"mail">>, parentuser |-> None, createdate |-> 0,
         hash |-> hashPassword("p2", <<"salt", 2>>), salt |-> <<"salt", 2>>])
InitApi(U, O) ==
    /\ InitMigration({}, TinyCatalog)
    /\ InitGateway
    /\ InitSettings({DefaultConfig}, {NoFile})
    /\ InitDefaultOrg
    /\ users \in U
    /\ userpasswordresets = EmptyTable
    /\ orgsettings \in O
    /\ usersessions = {}
    /\ sessionkeys = EmptyTable
    /\ issued = 0
    /\ served = 0
    /\ response = [op |-> "none"]
    /\ consumed = {}
    /\ posts = [w \in {1, 2} |->
                [pc |-> "idle", account |-> <<"", "">>, email |-> <<>>,
                 status |-> 0, calls |-> 0]]

\* The password-reset endpoints.
NextReset ==
    \/ RequestPasswordReset_post
    \/ CompletePasswordReset_post
    \/ ValidatePasswordReset_call
    \/ Pass
SpecReset ==
    InitApi({AdminOnly, TwoUsers}, {EmptyTable}) /\ [][NextReset]_vars

\* Registration: POST /users, with the sessions whose keys it is sent.
NextUsers ==
    \/ Users_post
    \/ Sessions_post
    \/ Pass
RegSettings ==
    {EmptyTable} \cup {<<"a.net", "registrationOpen">> :> v : v \in RegValues}
SpecUsers == InitApi({TwoUsers}, RegSettings) /\ [][NextUsers]_vars

\* Two workers handling POST /users at the same time.
NextUsersConcurrent ==
    \E w \in Workers : UP_Call(w) \/ UP_Check(w) \/ UP_Insert(w)
SpecUsersConcurrent ==
    InitApi({EmptyTable, TwoUsers}, RegSettings)
        /\ [][NextUsersConcurrent]_vars

\* The session endpoints.
NextSessions ==
    \/ Sessions_post
    \/ Sessions_get
    \/ Session_get
    \/ Pass
SpecSessions ==
    InitApi({AdminOnly, TwoUsers}, {EmptyTable}) /\ [][NextSessions]_vars

\* The threads of one process calling the store gateway.
GatewayStep(t) ==
    \/ GW_Call(t)
    \/ GS_Lookup(t) \/ GS_Cluster(t) \/ GS_NewCluster(t)
    \/ GS_ResetSessions(t) \/ GS_ResetStmts(t) \/ GS_Connect(t)
    \/ GS_InitStmts(t) \/ GS_Return(t)
    \/ PS_Lookup(t) \/ PS_Test(t) \/ PS_Store(t) \/ PS_Return(t)
NextGateway == \E t \in Threads : GatewayStep(t)
SpecGateway == InitWith({}, TinyCatalog) /\ [][NextGateway]_vars

\* The gateway used by one thread at a time: a call starts only when no
\* other call is under way.
GW_CallSerial(t) ==
    /\ \A u \in Threads \ {t} : At(u, {"idle"})
    /\ GW_Call(t)
NextGatewaySerial ==
    \E t \in Threads :
        \/ GW_CallSerial(t)
        \/ GS_Lookup(t) \/ GS_Cluster(t) \/ GS_NewCluster(t)
        \/ GS_ResetSessions(t) \/ GS_ResetStmts(t) \/ GS_Connect(t)
        \/ GS_InitStmts(t) \/ GS_Return(t)
        \/ PS_Lookup(t) \/ PS_Test(t) \/ PS_Store(t) \/ PS_Return(t)
SpecGatewaySerial == InitWith({}, TinyCatalog) /\ [][NextGatewaySerial]_vars

\* Settings.getConfig over the configurations and files of bounded depth.
NextSettings == Settings_getConfig \/ Settings_mergeAgain
InitSettingsOnly ==
    /\ InitMigration({}, TinyCatalog)
    /\ InitApiIdle
    /\ InitGateway
    /\ InitSettings(ConfigMaps, JsonValues)
    /\ InitDefaultOrg
SpecSettings == InitSettingsOnly /\ [][NextSettings]_vars

\* The nodes calling AuthDB.createDefaultOrg, each with its own arguments.
NextDefaultOrg ==
    \E c \in Callers :
        \/ CDO_Call(c)
        \/ CDO_Default(c) \/ CDO_SetDefault(c)
        \/ CDO_Org(c) \/ CDO_CreateOrg(c)
        \/ CDO_Admins(c) \/ CDO_SetAdmins(c)
        \/ CDO_User(c) \/ CDO_CreateUser(c)
SpecDefaultOrg == InitWith({}, TinyCatalog) /\ [][NextDefaultOrg]_vars

\* createDefaultOrg called again and again, one invocation at a time; the
\* process may die inside an invocation.
NextDefaultOrgRestart ==
    \E c \in Callers :
        \/ CDO_CallSerial(c) \/ CDO_Interrupt(c)
        \/ CDO_Default(c) \/ CDO_SetDefault(c)
        \/ CDO_Org(c) \/ CDO_CreateOrg(c)
        \/ CDO_Admins(c) \/ CDO_SetAdmins(c)
        \/ CDO_User(c) \/ CDO_CreateUser(c)
SpecDefaultOrgRestart ==
    InitWith({}, TinyCatalog) /\ [][NextDefaultOrgRestart]_vars

\* ================================================================ claims
\* Every node that called setupDB has returned from it.
AllReturned == \A n \in active : pc[n] = "done"

\* The history rows of script s.
RowsOf(s) == {k \in DOMAIN migrations : k[1] = s}

Undisturbed == ~lateInsert /\ ~reapedLive

\* ------------------------------------------------------------------- C2
\* C2: whenever setupDB has returned on a node without raising, every
\* baseline table of the catalog exists and the latest history row of
\* every script of the catalog is applied (checked on the runs in which
\* the election is undisturbed, where at most one node migrates at a time).
C2_ReturnedImpliesMigrated ==
    Undisturbed =>
        \A n \in Nodes :
            pc[n] = "done" =>
                /\ BaselineTables \subseteq tables
                /\ \A s \in Scripts : Applied(s)

\* ------------------------------------------------------------------- C3
\* The nodes that were selected at the re-read and have not left
\* doMigration.
Migrators == {n \in Nodes : pc[n] \in InDoMigration \cup {"rm_mark"}}

ExaminesScript(n) ==
    pc[n] = "ms_hist" /\ pc'[n] \notin {"ms_hist", "crashed"}

\* The places of migrateSchema after the run test has said "run".
Running == {"ms_insert", "ms_exec", "ms_succ", "ms_fail"}

\* C5: a script is skipped exactly when the latest row of its history has
\* run=true and failed=false, and skipping executes nothing and leaves
\* schema_migrations as it is; the history of a script changes, and its
\* CQL is executed, only in steps of a node that examined the script and
\* did not find it applied.
C5_AppliedIffSkipped ==
    [][/\ \A n \in Nodes :
            ExaminesScript(n) =>
                /\ Applied(CurFile(n)) <=> (pc'[n] = "upd")
                /\ Applied(CurFile(n)) =>
                        /\ migrations' = migrations
                        /\ execOK' = execOK
                        /\ last'[n] = "skipped"
       /\ \A s \in AllScripts :
            (execOK'[s] # execOK[s] \/
                    [k \in RowsOf(s) |-> migrations[k]] #
                        [k \in {x \in DOMAIN migrations' : x[1] = s}
                            |-> migrations'[k]])
                => \E n \in Nodes :
                        /\ pc[n] \in Running /\ CurFile(n) = s
                        /\ pc'[n] # pc[n]
      ]_vars

\* A node has examined a script whose history has a failed or provisional
\* row followed by an applied one, and has skipped it.
C5_Witness ==
    \E n \in Nodes :
        /\ pc[n] = "upd" /\ phase[n] = "migrate" /\ last[n] = "skipped"
        /\ Applied(CurFile(n))
        /\ Cardinality(RowsOf(CurFile(n))) >= 2

\* ------------------------------------------------------------------- C6
\* C6: when the winner examines a baseline file whose table exists, it
\* executes no DDL, creates no table, and goes on to the heartbeat that
\* follows a file that was handled without error.
C6_ExistingTableNoDDL ==
    [][\A n \in Nodes :
            (/\ pc[n] = "bl_check" /\ pc'[n] \notin {"bl_check", "crashed"}
             /\ CurFile(n) \in tables)
                => /\ pc'[n] = "upd"
                   /\ last'[n] = "skipped"
                   /\ ddl' = ddl
                   /\ tables' = tables
      ]_vars

\* A winner has skipped a baseline file whose table an earlier winner had
\* created.
C6_Witness ==
    \E n \in Nodes :
        /\ pc[n] = "upd" /\ phase[n] = "baseline" /\ last[n] = "skipped"
        /\ CurFile(n) \in tables
        /\ ddl[CurFile(n)] = 1

Provisional == [run |-> FALSE, failed |-> FALSE, error |-> ""]

\* The latest row of script s is the row k, still provisional.
LatestIs(s, k) ==
    /\ k \in DOMAIN migrations
    /\ migrations[k] = Provisional
    /\ \A x \in RowsOf(s) : x[2] <= k[2]

\* C9: when the latest row of a script is the provisional row k that a
\* crashed winner left, a later winner that examines the script runs it:
\* it inserts a provisional row with a newer time and leaves k alone, and
\* after executing the script it marks its own row applied and leaves k,
\* still provisional, alone.
C9_ProvisionalSuperseded ==
    [][\A n \in Nodes : \A k \in orphans :
            /\ (ExaminesScript(n) /\ LatestIs(CurFile(n), k))
                    => pc'[n] = "ms_insert"
            /\ (/\ pc[n] = "ms_insert" /\ pc'[n] = "ms_exec"
                 /\ LatestIs(CurFile(n), k) /\ k[2] < now)
                    => /\ exectime'[n] > k[2]
                       /\ migrations' = Put(migrations,
                                <<CurFile(n), exectime'[n]>>, Provisional)
                       /\ migrations'[k] = Provisional
            /\ (/\ pc[n] = "ms_succ" /\ pc'[n] = "upd"
                 /\ k[1] = CurFile(n) /\ k[2] < exectime[n]
                 /\ k \in DOMAIN migrations)
                    => /\ migrations'[k] = migrations[k]
                       /\ migrations'[<<CurFile(n), exectime[n]>>].run
                       /\ ~migrations'[<<CurFile(n), exectime[n]>>].failed
                       /\ DOMAIN migrations' = DOMAIN migrations
      ]_vars

\* The crashed winner's row is still provisional and a newer row of the
\* same script is applied.
C9_Witness ==
    \E k \in orphans :
        /\ k \in DOMAIN migrations
        /\ migrations[k] = Provisional
        /\ Applied(k[1])
        /\ \E x \in RowsOf(k[1]) : x[2] > k[2] /\ migrations[x].run

\* ------------------------------------------------------------------ C10
\* C10: with crashes and failing datastore writes, the CQL of a script is
\* executed successfully at most once (checked on the runs in which the
\* election is undisturbed, where at most one node migrates at a time).
C10_ExecutedAtMostOnce ==
    Undisturbed => \A s \in AllScripts : execOK[s] <= 1

\* ------------------------------------------------------------------- C4
\* Node n crashed as the winner: its request row is still marked in
\* progress.
CrashedWinner(n) ==
    /\ pc[n] = "crashed"
    /\ myReq[n] \in DOMAIN requests
    /\ requests[myReq[n]].inprogress

\* The migration is complete and the request table is empty.
Migrated ==
    /\ requests = EmptyTable
    /\ BaselineTables \subseteq tables
    /\ \A s \in Scripts : Applied(s)

\* C4: when the winner has crashed with its request in progress and a
\* node is waiting, then (no script failing, and unless the waiter crashes
\* too) the row goes stale, the waiter requests a migration again, the row
\* is reaped and the migration completes with the request table empty.
C4_CrashedWinnerRepaired ==
    ((\E n \in Nodes : CrashedWinner(n)) /\ (\E m \in Nodes : pc[m] = "wait"))
        ~> (Migrated \/ \A n \in active : pc[n] = "crashed")

\* The waiter has taken over from the crashed winner and has returned.
C4_Witness ==
    /\ Migrated
    /\ \E n, m \in Nodes :
            /\ pc[n] = "crashed" /\ myReq[n] # 0
            /\ pc[m] = "done" /\ nomCount[m] > 0
            /\ now > StaleAfter

C11_FailureRecorded ==
    [][\A n \in Nodes :
            /\ (pc[n] = "ms_exec" /\ pc'[n] = "ms_fail")
                    => (migrations' = migrations /\ requests' = requests)
            /\ (pc[n] = "ms_fail" /\ pc'[n] \notin {"ms_fail", "crashed"})
                    => /\ pc'[n] = "rm_markfailed"
                       /\ requests' = requests
                       /\ migrations' = Put(migrations,
                                <<CurFile(n), exectime[n]>>,
                                [run |-> FALSE, failed |-> TRUE,
                                 error |-> "e"])
            /\ (pc[n] = "rm_markfailed"
                    /\ pc'[n] \notin {"rm_markfailed", "crashed"})
                    => /\ pc'[n] = "error"
                       /\ myReq[n] \in DOMAIN requests'
                       /\ requests'[myReq[n]].failed
                       /\ ~requests'[myReq[n]].inprogress
                       /\ requests'[myReq[n]].lastupdate = now
                       /\ DOMAIN requests \subseteq DOMAIN requests'
                       /\ migrations' = migrations
      ]_vars

\* A node has left requestMigration by the error of a failed script: the
\* history row is marked failed and its request row is there, failed.
C11_Witness ==
    \E n \in Nodes :
        /\ pc[n] = "error"
        /\ myReq[n] \in DOMAIN requests
        /\ requests[myReq[n]].failed /\ ~requests[myReq[n]].inprogress
        /\ \E k \in DOMAIN migrations :
                migrations[k] = [run |-> FALSE, failed |-> TRUE, error |-> "e"]

\* ------------------------------------------------------------------ C12
\* The request the API has just answered.
Answered(op) == served' = served + 1 /\ response'.op = op

\* C12: validatePasswordReset(org, user, resetid) returns true exactly when
\* a reset record of the user exists, the instant seven days after its
\* requestdate is later than the current time, and the resetid supplied is
\* the string form of the stored resetid; it returns false without record.
C12_ValidIffFreshAndMatching ==
    [][Answered("validatePasswordReset") =>
            (response'.result <=>
                /\ response'.account \in DOMAIN userpasswordresets
                /\ LET stored == userpasswordresets[response'.account]
                   IN  /\ stored.requestdate + ResetLifetime > now
                       /\ response'.resetid = <<"lower", stored.resetid>>)
      ]_vars

\* A reset requested earlier validates, and one that has reached the end of
\* its lifetime does not.
C12_Witness ==
    /\ response.op = "validatePasswordReset"
    /\ response.account \in DOMAIN userpasswordresets
    /\ response.resetid = <<"lower", userpasswordresets[response.account].resetid>>
    /\ \/ response.result /\ now = ResetLifetime - 1
       \/ ~response.result /\ now = ResetLifetime
    /\ userpasswordresets[response.account].requestdate = 0

\* ------------------------------------------------------------------ C13
\* C13: once CompletePasswordReset has answered 200 for an existing user
\* and a valid, unexpired resetid, the user's salt is the salt generated
\* for the request and the hash is the hash of the submitted password under
\* it, the user has no reset record, and the resetid never validates again.
C13_ResetConsumed ==
    /\ [](\A c \in consumed : ~validatePasswordReset(c[1], c[2]))
    /\ [][(Answered("completepasswordreset") /\ response'.status = 200) =>
            /\ userExists(response'.account)
            /\ validatePasswordReset(response'.account, response'.resetid)
            /\ users'[response'.account].salt = response'.salt
            /\ users'[response'.account].hash =
                    <<"argon2", response'.password, response'.salt>>
            /\ response'.account \notin DOMAIN userpasswordresets'
            /\ <<response'.account, response'.resetid>> \in consumed'
         ]_vars

\* A user who had a password has completed a reset and has another salt,
\* and a later reset was requested for the same user.
C13_Witness ==
    /\ consumed # {}
    /\ \E c \in consumed :
          /\ users[c[1]].salt # <<"salt", 1>>
          /\ users[c[1]].hash # None
          /\ c[1] = <<"a.net", "alice">>
          /\ c[1] \in DOMAIN userpasswordresets

\* ------------------------------------------------------------------ C14
\* C14: CompletePasswordReset answers 400 and changes no hash and no salt
\* when the resetid supplied is not the string form of the stored one, when
\* more than seven days have passed since the requestdate, or when the user
\* has no reset record.
C14_InvalidResetRejected ==
    [][(/\ Answered("completepasswordreset")
        /\ \/ response'.account \notin DOMAIN userpasswordresets
           \/ response'.resetid #
                <<"lower", userpasswordresets[response'.account].resetid>>
           \/ now > userpasswordresets[response'.account].requestdate
                        + ResetLifetime)
            => /\ response'.status = 400
               /\ \A a \in DOMAIN users :
                     /\ a \in DOMAIN users'
                     /\ users'[a].hash = users[a].hash
                     /\ users'[a].salt = users[a].salt
               /\ DOMAIN users' = DOMAIN users
      ]_vars

\* A reset completed with the right resetid, but too late: 400.
C14_Witness ==
    /\ response.op = "completepasswordreset"
    /\ response.status = 400
    /\ response.account \in DOMAIN users
    /\ response.account \in DOMAIN userpasswordresets
    /\ response.resetid =
            <<"lower", userpasswordresets[response.account].resetid>>
    /\ now > userpasswordresets[response.account].requestdate + ResetLifetime

\* ------------------------------------------------------------------ C15
\* The key is known and has not expired.
KeyIsValid(key) == key \in DOMAIN sessionkeys /\ sessionkeys[key].expiry > now

\* The key is valid and is bound to the <<org, username>> a.
KeyIsOf(key, a) ==
    /\ KeyIsValid(key)
    /\ sessionkeys[key].org = a[1]
    /\ sessionkeys[key].username = a[2]

\* C15: GET /sessions/<u>@<o> and GET /sessions/<u>@<o>/<sid> return
\* session data only when the key validates and the key's (user, org) is
\* the path's; an invalid key gets 401, a valid key of another user 403,
\* and neither answer carries session data.
C15_SessionDataOwnerOnly ==
    [][(Answered("sessions_get") \/ Answered("session_get")) =>
            /\ (response'.status = 200 \/ response'.sessions # {})
                    => KeyIsOf(response'.key, response'.account)
            /\ ~KeyIsValid(response'.key)
                    => response'.status = 401 /\ response'.sessions = {}
            /\ (KeyIsValid(response'.key)
                    /\ ~KeyIsOf(response'.key, response'.account))
                    => response'.status = 403 /\ response'.sessions = {}
      ]_vars

\* A user with a session was asked for with the valid key of another user,
\* and the answer was 403.
C15_Witness ==
    /\ response.op = "sessions_get"
    /\ response.status = 403
    /\ KeyIsValid(response.key)
    /\ \E s \in usersessions :
          s[1] = response.account[1] /\ s[2] = response.account[2]

\* ------------------------------------------------------------------ C16
\* The parentuser text names an existing user: name@org, both non-empty.
ParentOf(parentuser) == <<parentuser[2], parentuser[1]>>
ParentExists(parentuser) ==
    /\ Len(parentuser) = 2
    /\ parentuser[1] # ""
    /\ parentuser[2] # ""
    /\ ParentOf(parentuser) \in DOMAIN users

\* The request is for a user who does not exist yet, in an org whose
\* registration test it passes.
Admissible(a) ==
    /\ a \notin DOMAIN users
    /\ ~RegistrationClosed(getOrgSetting(a[1], "registrationOpen"))

\* C16: POST /users with a parentuser creates the user only when the parent
\* exists, a key is supplied and the key validates to exactly the parent's
\* (user, org).  For a new user in an org open for registration a missing
\* parent is answered 400, a missing key 401 and a key that is not valid
\* for the parent 403, and none of these answers creates a user.
C16_ParentMustAuthorize ==
    [][(Answered("users_post") /\ response'.parentuser # None) =>
        LET a == response'.account
            parentuser == response'.parentuser
            key == response'.key
        IN  /\ users' # users
                => /\ ParentExists(parentuser)
                   /\ key # None
                   /\ KeyIsOf(key, ParentOf(parentuser))
                   /\ response'.status = 200
            /\ (Admissible(a) /\ ~ParentExists(parentuser))
                => response'.status = 400
            /\ (Admissible(a) /\ ParentExists(parentuser) /\ key = None)
                => response'.status = 401
            /\ (Admissible(a) /\ ParentExists(parentuser) /\ key # None
                    /\ ~KeyIsOf(key, ParentOf(parentuser)))
                => response'.status = 403
            /\ response'.status \in {400, 401, 403} => users' = users
      ]_vars

\* A user was created under a parent, with the parent's key.
C16_Witness ==
    /\ response.op = "users_post"
    /\ response.parentuser = <<"alice", "a.net">>
    /\ response.status = 200
    /\ response.account \in DOMAIN users
    /\ users[response.account].parentuser = response.parentuser
    /\ KeyIsOf(response.key, <<"a.net", "alice">>)

\* ------------------------------------------------------------------ C17
\* C17: POST /users for an org whose registrationOpen setting is absent,
\* "0" or "" is answered 400 and creates no user.
C17_ClosedRegistrationRefused ==
    [][(/\ Answered("users_post")
        /\ \/ <<response'.account[1], "registrationOpen">>
                    \notin DOMAIN orgsettings
           \/ orgsettings[<<response'.account[1], "registrationOpen">>]
                    \in {"0", ""})
            => response'.status = 400 /\ users' = users
      ]_vars

\* ------------------------------------------------------------------ C18
\* C18: in every interleaving of getSession and getPreparedStatement calls
\* of several threads one cluster object is created, each keyspace gets
\* one session, and no thread discards a session or a cached prepared
\* statement that another thread registered.
C18_GatewaySafe ==
    /\ made.clusters <= 1
    /\ \A l \in DOMAIN made.sessions : made.sessions[l] <= 1
    /\ ~discarded

\* ------------------------------------------------------------------ C19
\* r is the map a with the scalars of b written over it.
MergedFlat(a, b, r) ==
    /\ DOMAIN r.v = DOMAIN a.v
    /\ \A k \in DOMAIN a.v :
          r.v[k] = IF k \in DOMAIN b.v THEN b.v[k] ELSE a.v[k]

\* r is the map a merged with the map b: a's keys and no others; a key b
\* lacks keeps its value, a scalar takes b's value, and a nested map is
\* merged with b's nested map.
Merged(a, b, r) ==
    /\ DOMAIN r.v = DOMAIN a.v
    /\ \A k \in DOMAIN a.v :
          /\ k \notin DOMAIN b.v => r.v[k] = a.v[k]
          /\ (k \in DOMAIN b.v /\ ~IsMap(a.v[k])) => r.v[k] = b.v[k]
          /\ (k \in DOMAIN b.v /\ IsMap(a.v[k]) /\ IsMap(b.v[k]))
                => IsMap(r.v[k]) /\ MergedFlat(a.v[k], b.v[k], r.v[k])

\* C19: mergeConfig is idempotent, merge(merge(a, b), b) = merge(a, b);
\* the keys of b that a lacks are ignored, scalars are overwritten and
\* nested maps are merged recursively.
C19_MergeIdempotent ==
    /\ [](remerged # NotMerged => remerged = [val |-> config, raised |-> FALSE])
    /\ [][(~loaded /\ loaded' /\ IsMap(sysConfig))
                => Merged(config, sysConfig, config')]_vars

\* A nested map was merged, keeping a key the file lacks and taking the
\* file's value for another; a key of the file that the configuration
\* lacks was ignored, and merging again changed nothing.
C19_Witness ==
    /\ loaded
    /\ remerged = [val |-> config, raised |-> FALSE]
    /\ IsMap(sysConfig)
    /\ DOMAIN sysConfig.v \ DOMAIN config.v # {}
    /\ \E k \in DOMAIN config.v \cap DOMAIN sysConfig.v :
          /\ IsMap(config.v[k])
          /\ IsMap(sysConfig.v[k])
          /\ DOMAIN config.v[k].v \ DOMAIN sysConfig.v[k].v # {}
          /\ \E j \in DOMAIN config.v[k].v \cap DOMAIN sysConfig.v[k].v :
                config.v[k].v[j] = sysConfig.v[k].v[j]

\* C20 as stated: an invocation of createDefaultOrg that begins after some
\* invocation has completed performs no writes.
C20_NoWritesAfterCompleted ==
    \A c \in Callers : cdo[c].late => cdo[c].wrote = 0

\* C20, amended: once an invocation of createDefaultOrg has run to
\* completion without overlapping another, every further invocation, with
\* the same or other arguments, performs no writes and works on the org
\* that the stored 'defaultorg' names, and nothing stored is written again.
C20_IdempotentOnceSettled ==
    /\ [](\A c \in Callers :
            cdo[c].further =>
                /\ cdo[c].wrote = 0
                /\ cdo[c].pc \in {"cdo_default", "cdo_org", "cdo_admins",
                                  "idle"}
                /\ cdo[c].pc # "cdo_default" =>
                      cdo[c].defaultOrg = globalsettings["defaultorg"])
    /\ [][cdoLog.settled =>
            /\ globalsettings' = globalsettings
            /\ orgs' = orgs
            /\ orgsettings' = orgsettings
            /\ users' = users]_vars

\* A further invocation, called with another org and another admin than
\* the stored ones, has returned.
C20_Witness ==
    \E c \in Callers :
        /\ cdo[c].further
        /\ cdo[c].pc = "idle"
        /\ cdo[c].wrote = 0
        /\ cdo[c].orgName # globalsettings["defaultorg"]
        /\ <<globalsettings["defaultorg"], "admins">> \in DOMAIN orgsettings
        /\ cdo[c].adminUser #
              orgsettings[<<globalsettings["defaultorg"], "admins">>][1]

\* C21: the reap step of requestMigration, when every row it reads can be
\* tested, deletes exactly the rows that are failed, or not in progress
\* with a reqtime more than a minute old, or in progress with a lastupdate
\* more than a minute old; the other rows read are the live set, which
\* decides between nominating and waiting, and no delete touches them.
C21_Old(r) ==
    \/ requests[r].failed
    \/ ~requests[r].inprogress /\ requests[r].reqtime < now - StaleAfter
    \/ requests[r].inprogress /\ requests[r].lastupdate < now - StaleAfter

C21_ReapedIffStale ==
    [][\A n \in Nodes :
        /\ ( /\ pc[n] = "rm_read"
             /\ pc'[n] \notin {"rm_read", "crashed"}
             /\ \A r \in DOMAIN requests : ~StaleRaises(requests[r]) ) =>
                LET stale == {r \in DOMAIN requests : C21_Old(r)}
                    live == (DOMAIN requests) \ stale
                    next == IF pc'[n] = "rm_reap" THEN rmNext'[n]
                            ELSE IF pc'[n] = "rm_insert" THEN "nominate"
                            ELSE pc'[n]
                IN /\ requests' = requests
                   /\ toReap'[n] = stale
                   /\ pc'[n] = "rm_reap" <=> stale # {}
                   /\ next = IF live = {} THEN "nominate" ELSE "wait"
        /\ ( /\ pc[n] = "rm_reap"
             /\ toReap'[n] # toReap[n] ) =>
                \E r \in toReap[n] :
                    /\ requests' = Del(requests, r)
                    /\ toReap'[n] = toReap[n] \ {r}
                    /\ pc'[n] = "rm_reap" <=> toReap'[n] # {}
    ]_vars

\* A node is deleting the stale rows of a read that also held a live row:
\* one of them stale by its age alone, the live row older still but with a
\* fresh lastupdate.
C21_Witness ==
    \E n \in Nodes :
        /\ pc[n] = "rm_reap"
        /\ rmNext[n] = "wait"
        /\ \E r \in toReap[n] :
                r \in DOMAIN requests /\ ~requests[r].failed
        /\ \E r \in (DOMAIN requests) \ toReap[n] :
                requests[r].inprogress /\ requests[r].reqtime < now - StaleAfter

\* C22: a requestMigration whose first read keeps at least one request
\* (the live set is not empty) goes from the read, through the deletes of
\* the stale rows, to waitForMigrationCompletion and nowhere else: it makes
\* no nomination, inserts no request, creates no table, executes no script
\* and writes no history row.
C22_Live == {r \in DOMAIN requests : ~IsStale(requests[r], now - StaleAfter)}

C22_LiveSetOnlyWaits ==
    [][\A n \in Nodes :
        /\ ( /\ pc[n] = "rm_read"
             /\ pc'[n] \notin {"rm_read", "crashed"}
             /\ \A r \in DOMAIN requests : ~StaleRaises(requests[r])
             /\ C22_Live # {} ) =>
                /\ pc'[n] \in {"rm_reap", "wait"}
                /\ pc'[n] = "rm_reap" => rmNext'[n] = "wait"
                /\ UNCHANGED <<storeVars, ddl, execOK, nomCount, myReq>>
        /\ ( /\ pc[n] = "rm_reap"
             /\ rmNext[n] = "wait"
             /\ toReap'[n] # toReap[n] ) =>
                /\ pc'[n] \in {"rm_reap", "wait"}
                /\ pc'[n] = "rm_reap" => rmNext'[n] = "wait"
                /\ DOMAIN requests' \subseteq DOMAIN requests
                /\ \A r \in DOMAIN requests' : requests'[r] = requests[r]
                /\ UNCHANGED <<keyspace, tables, migrations, ddl, execOK,
                               nomCount, myReq>>
    ]_vars

\* A node that found a request of another process and never nominated
\* itself is in waitForMigrationCompletion, nothing executed so far.
C22_Witness ==
    \E n \in Nodes :
        /\ pc[n] = "wait"
        /\ nomCount[n] = 0
        /\ requests # EmptyTable
        /\ migrations = EmptyTable
        /\ \A t \in AllTables : ddl[t] = 0

\* C23: a node is selected at the re-read only if its request has the
\* smallest reqtime of the rows it read and, among the rows of that
\* reqtime, the smallest reqid.
C23_SmallestReqtimeThenReqid ==
    [][\A n \in Nodes :
        (pc[n] = "rm_reread" /\ pc'[n] = "rm_mark") =>
            \A r \in DOMAIN requests :
                \/ requests[myReq[n]].reqtime < requests[r].reqtime
                \/ /\ requests[myReq[n]].reqtime = requests[r].reqtime
                   /\ myReq[n] <= r
    ]_vars

\* C24: a node whose request is not the first of the sorted re-read goes
\* on to delete that request, and that DELETE removes its own row and
\* nothing else; the node then waits, and leaves the wait only by returning
\* or by a new requestMigration.  From the re-read to the end of the wait
\* it marks no request in progress, creates no table, executes no script
\* and writes no history row.
C24_LoserWithdraws ==
    [][\A n \in Nodes :
        /\ ( /\ pc[n] = "rm_reread"
             /\ pc'[n] \notin {"rm_reread", "crashed", "error"}
             /\ Winner(SelectRequests) # myReq[n] ) =>
                /\ pc'[n] = "rm_loserdelete"
                /\ UNCHANGED <<storeVars, ddl, execOK>>
        /\ ( /\ pc[n] = "rm_loserdelete"
             /\ pc'[n] \notin {"rm_loserdelete", "crashed"} ) =>
                /\ pc'[n] = "wait"
                /\ requests' = Del(requests, myReq[n])
                /\ UNCHANGED <<keyspace, tables, migrations, ddl, execOK>>
        /\ ( /\ pc[n] = "wait"
             /\ nomCount[n] > 0
             /\ pc'[n] # "wait" ) =>
                /\ pc'[n] \in {"done", "rm_read", "crashed"}
                /\ UNCHANGED <<storeVars, ddl, execOK>>
    ]_vars

\* Two nodes that lost the election wait, their requests gone, while the
\* request of the winner is in progress.
C24_Witness ==
    \E n, m \in Nodes :
        /\ n # m
        /\ pc[n] = "wait" /\ pc[m] = "wait"
        /\ nomCount[n] = 1 /\ nomCount[m] = 1
        /\ \E r \in DOMAIN requests : requests[r].inprogress
        /\ \A r \in DOMAIN requests : Owner(r) \notin {n, m}

\* C25: a node leaves the polling loop of waitForMigrationCompletion in
\* two ways only.  Reading no request it returns, without calling
\* requestMigration; reading some request that is failed, or in progress
\* with a lastupdate more than a minute old, it calls requestMigration.
\* Reading requests none of which is so, it stays in the loop.
C25_WaitEnds ==
    [][\A n \in Nodes :
        (pc[n] = "wait" /\ pc'[n] \notin {"wait", "crashed"}) =>
            IF DOMAIN requests = {}
            THEN pc'[n] = "done" /\ nomCount'[n] = nomCount[n]
            ELSE /\ pc'[n] = "rm_read"
                 /\ \E r \in DOMAIN requests :
                        \/ requests[r].failed
                        \/ /\ requests[r].inprogress
                           /\ requests[r].lastupdate < now - StaleAfter
    ]_vars

\* A node that lost the election has left the wait for a new
\* requestMigration on a request in progress whose lastupdate is more than
\* a minute old.
C25_Witness ==
    \E n \in Nodes :
        /\ pc[n] = "rm_read"
        /\ nomCount[n] = 1
        /\ \E r \in DOMAIN requests :
                /\ requests[r].inprogress
                /\ ~requests[r].failed
                /\ requests[r].lastupdate < now - StaleAfter

\* C26: a node that leaves the polling loop of waitForMigrationCompletion
\* has changed no row of schema_migration_requests or schema_migrations;
\* and whenever a request row disappears, a node in requestMigration has
\* deleted it: as one of the stale rows of its first read, as its own
\* request after losing the election, or as its own request after
\* doMigration returned.
C26_WaitWritesNothing ==
    [][/\ \A n \in Nodes :
            (pc[n] = "wait" /\ pc'[n] # "wait") =>
                UNCHANGED <<requests, migrations, tables>>
       /\ \A r \in (DOMAIN requests) \ (DOMAIN requests') :
            \E n \in Nodes :
                \/ /\ pc[n] = "rm_reap"
                   /\ r \in toReap[n]
                   /\ toReap'[n] = toReap[n] \ {r}
                \/ /\ pc[n] \in {"rm_loserdelete", "rm_delete"}
                   /\ pc'[n] # pc[n]
                   /\ r = myReq[n]
    ]_vars

\* A node that lost the election has left the wait on the failed request
\* of the winner, and the failed request is still in the table.
C26_Witness ==
    \E n \in Nodes :
        /\ pc[n] = "rm_read"
        /\ nomCount[n] = 1
        /\ \E r \in DOMAIN requests :
                requests[r].failed /\ pc[Owner(r)] = "error"

\* C27: a request row comes into being only by its owner's INSERT, as
\* created (not in progress, not failed); from created it changes only to
\* in progress, from in progress only to failed (its heartbeats apart), and
\* a failed row changes no more; the owner's DELETE after doMigration
\* removes a row that is in progress.  Rows leave the table otherwise by
\* the reap of a later requestMigration or by the DELETE of a node not
\* selected.
C27_State(row) ==
    IF row.failed THEN "failed"
    ELSE IF row.inprogress THEN "inprogress" ELSE "created"

C27_RowLifecycle ==
    [][\A r \in ReqIds :
        /\ (r \notin DOMAIN requests /\ r \in DOMAIN requests') =>
                /\ pc[Owner(r)] = "rm_insert"
                /\ myReq[Owner(r)] = r
                /\ C27_State(requests'[r]) = "created"
        /\ (r \in DOMAIN requests /\ r \in DOMAIN requests') =>
                \/ C27_State(requests'[r]) = C27_State(requests[r])
                        /\ (C27_State(requests[r]) # "inprogress"
                                => requests'[r] = requests[r])
                \/ C27_State(requests[r]) = "created"
                        /\ C27_State(requests'[r]) = "inprogress"
                \/ C27_State(requests[r]) = "inprogress"
                        /\ C27_State(requests'[r]) = "failed"
        /\ ( /\ r \in DOMAIN requests
             /\ r \notin DOMAIN requests'
             /\ pc[Owner(r)] = "rm_delete"
             /\ pc'[Owner(r)] = "done" ) =>
                C27_State(requests[r]) = "inprogress"
    ]_vars

\* C28 as stated: a history row is inserted as provisional (run and
\* failed both false) under a time later than every row of its script,
\* changes at most once, to applied (run) or to aborted (failed), and is
\* never deleted; a node whose history query finds the latest row of a
\* script aborted goes on to insert a new row for it.
C28_State(row) ==
    IF row.failed THEN "aborted"
    ELSE IF row.run THEN "applied" ELSE "provisional"

C28_Lifecycle ==
    /\ DOMAIN migrations \subseteq DOMAIN migrations'
    /\ \A k \in DOMAIN migrations :
         \/ migrations'[k] = migrations[k]
         \/ /\ C28_State(migrations[k]) = "provisional"
            /\ C28_State(migrations'[k]) \in {"applied", "aborted"}
    /\ \A k \in (DOMAIN migrations') \ (DOMAIN migrations) :
         /\ C28_State(migrations'[k]) = "provisional"
         /\ \A j \in DOMAIN migrations : j[1] = k[1] => j[2] < k[2]
    /\ \A n \in Nodes :
         ( /\ pc[n] = "ms_hist"
           /\ pc'[n] \notin {"ms_hist", "crashed"}
           /\ Len(History(CurFile(n))) > 0
           /\ History(CurFile(n))[Len(History(CurFile(n)))].failed ) =>
                 pc'[n] = "ms_insert"
    /\ \A n \in Nodes :
         (pc[n] = "ms_insert" /\ pc'[n] = "ms_exec") =>
                 DOMAIN migrations' # DOMAIN migrations

\* The clock of the model stands still between two steps, the clock of a
\* node does not: a node that inserts a history row after the node that
\* wrote an earlier row of the script has left it reads a later time.  A
\* step is judged only if it respects this.
C28_ClockMoves ==
    \A n \in Nodes :
        ( /\ pc[n] = "ms_insert"
          /\ pc'[n] = "ms_exec"
          /\ <<CurFile(n), now>> \in DOMAIN migrations ) =>
                \E m \in Nodes \ {n} :
                    /\ pc[m] \in {"ms_exec", "ms_succ", "ms_fail"}
                    /\ CurFile(m) = CurFile(n)
                    /\ exectime[m] = now

C29_MarkedAndRefreshed ==
    [][/\ \A n \in Nodes :
            /\ (pc[n] \notin InDoMigration /\ pc'[n] \in InDoMigration) =>
                    /\ pc[n] = "rm_mark"
                    /\ requests'[myReq[n]].inprogress
                    /\ requests'[myReq[n]].lastupdate = now
            /\ ( /\ pc[n] \in InDoMigration
                 /\ <<phase[n], idx[n]>> # <<phase'[n], idx'[n]>> ) =>
                    /\ pc[n] = "upd"
                    /\ last[n] \in {"ran", "skipped", "warned"}
                    /\ myReq[n] \in DOMAIN requests'
                    /\ requests'[myReq[n]].lastupdate = now
                    /\ myReq[n] \in DOMAIN requests =>
                          requests' = [requests EXCEPT
                                          ![myReq[n]].lastupdate = now]
       /\ (ddl' # ddl \/ execOK' # execOK) =>
            \E n \in Nodes : pc[n] \in {"bl_exec", "ms_exec"} /\ pc'[n] # pc[n]
       /\ \A r \in (DOMAIN requests) \cap (DOMAIN requests') :
            requests'[r].lastupdate >= requests[r].lastupdate
    ]_vars

\* A winner that skipped the baseline of an existing table is at the
\* script that follows, its request in progress and refreshed just now, at
\* a later time than the one it was marked at.
C29_Witness ==
    \E n \in Nodes :
        /\ pc[n] = "ms_hist"
        /\ ddl["orgs"] = 1
        /\ execOK["001"] = 1
        /\ myReq[n] \in DOMAIN requests
        /\ requests[myReq[n]].inprogress
        /\ requests[myReq[n]].lastupdate = now
        /\ requests[myReq[n]].reqtime < now - SettleTime

\* ------------------------------------------------------------------- C30
\* The place of a file in one pass: the baseline directory before the
\* migration directory, and the basename order inside a directory.
C30_Key(ph, f) == (IF ph = "baseline" THEN 0 ELSE 100) + f.rank

C30_Cql ==
    {<<"baseline", f>> : f \in {g \in catalog.baseline : g.cql}}
        \cup {<<"migrate", f>> : f \in {g \in catalog.migrate : g.cql}}

\* The files of the pass that come after the place k.
C30_Later(k) == {x \in C30_Cql : C30_Key(x[1], x[2]) > k}

\* C30: within one pass of a selected node the files are taken in ascending
\* order of basename, the baseline directory before the migration
\* directory, and only files ending in .cql: the pass starts at the first
\* such file, each file is followed by the next one in that order, and the
\* pass ends normally only after the last one.  A statement of the catalog
\* is executed only for the file the pass stands at.  Once a file raises,
\* the pass goes to the failure branch and on to the error, and moves to no
\* other file.
C30_FilesInOrder ==
    [][/\ \A n \in Nodes :
           LET at == IF pc[n] = "rm_mark" THEN 0 - 1
                     ELSE C30_Key(phase[n], DirOf(phase[n])[idx[n]])
               moves == /\ pc[n] \in {"rm_mark", "upd"}
                        /\ pc'[n] # pc[n]
                        /\ pc'[n] # "crashed"
           IN /\ moves =>
                   IF C30_Later(at) = {}
                   THEN pc'[n] = "rm_delete"
                   ELSE /\ pc'[n] = IF phase'[n] = "baseline" THEN "bl_check"
                                    ELSE "ms_hist"
                        /\ phase'[n] \in {"baseline", "migrate"}
                        /\ idx'[n] \in DOMAIN DirOf(phase'[n])
                        /\ LET f == DirOf(phase'[n])[idx'[n]]
                           IN /\ <<phase'[n], f>> \in C30_Later(at)
                              /\ \A x \in C30_Later(at) :
                                   C30_Key(phase'[n], f) <= C30_Key(x[1], x[2])
              /\ (~moves /\ pc'[n] \in InDoMigration) =>
                   /\ pc[n] \in InDoMigration
                   /\ phase'[n] = phase[n]
                   /\ idx'[n] = idx[n]
              /\ ( /\ pc[n] \in InDoMigration \ {"upd"}
                   /\ pc'[n] \notin InDoMigration ) =>
                   pc'[n] \in {"rm_markfailed", "crashed"}
              /\ pc[n] = "rm_markfailed" =>
                   pc'[n] \in {"rm_markfailed", "error", "crashed"}
              /\ pc[n] = "error" => pc'[n] = "error"
       /\ \A t \in DOMAIN ddl :
             ddl'[t] # ddl[t] =>
                 \E n \in Nodes :
                     /\ pc[n] = "bl_exec" /\ pc'[n] # pc[n]
                     /\ phase[n] = "baseline" /\ CurFile(n) = t
       /\ \A sc \in DOMAIN execOK :
             execOK'[sc] # execOK[sc] =>
                 \E n \in Nodes :
                     /\ pc[n] = "ms_exec" /\ pc'[n] # pc[n]
                     /\ phase[n] = "migrate" /\ CurFile(n) = sc]_vars

\* A pass over two baselines and two scripts, listed out of order, has run
\* both baselines and is in the failure branch at the first script: the
\* second script was never executed.
C30_Witness ==
    \E n \in Nodes :
        /\ catalog = FullCatalog
        /\ pc[n] = "rm_markfailed"
        /\ phase[n] = "migrate"
        /\ CurFile(n) = "001"
        /\ ddl["orgs"] = 1
        /\ ddl["users"] = 1
        /\ execOK["001"] = 0
        /\ execOK["002"] = 0

\* ------------------------------------------------------------------- C31
\* C31: when the statement of a baseline file raises, the node looks the
\* table up again: it goes on to the call of updateReq and to the next file
\* exactly when the table exists at that lookup, and to the failure branch
\* of requestMigration otherwise.  Only a raising statement leads to that
\* lookup, and the lookup changes nothing in the store.
C31_ErrorForgivenIffTableExists ==
    [][\A n \in Nodes :
        /\ (pc[n] = "bl_recheck" /\ pc'[n] \notin {"bl_recheck", "crashed"}) =>
            /\ IF CurFile(n) \in tables
               THEN /\ pc'[n] = "upd"
                    /\ last'[n] = "warned"
               ELSE pc'[n] = "rm_markfailed"
            /\ tables' = tables
            /\ requests' = requests
            /\ <<phase'[n], idx'[n]>> = <<phase[n], idx[n]>>
        /\ (pc[n] # "bl_recheck" /\ pc'[n] = "bl_recheck") =>
            /\ pc[n] = "bl_exec"
            /\ ddl'[CurFile(n)] = ddl[CurFile(n)] + 1
            /\ tables' = tables
        /\ (pc[n] = "upd" /\ last[n] = "warned" /\ pc'[n] # pc[n]) =>
            pc'[n] \in {"bl_check", "ms_hist", "rm_delete", "crashed"}]_vars

\* A node goes on to updateReq after a baseline whose statement raised and
\* whose table exists, created by another node that ran the same file.
C31_Witness ==
    \E n \in Nodes :
        /\ pc[n] = "upd"
        /\ phase[n] = "baseline"
        /\ last[n] = "warned"
        /\ CurFile(n) \in tables
        /\ ddl[CurFile(n)] = 2

\* ------------------------------------------------------------------- C32
\* C32: a DELETE of the reap loop that raises does not end requestMigration
\* with an error.  The row stays in the table but is struck from the rows
\* still to reap without joining the live set: the decision taken from the
\* live set at the read stands, so that after the last row the node
\* nominates itself or waits as it would have had the DELETE succeeded.
C32_ReapFailureSwallowed ==
    [][\A n \in Nodes :
        ( /\ pc[n] = "rm_reap"
          /\ toReap'[n] # toReap[n]
          /\ faults' # faults ) =>
            /\ requests' = requests
            /\ \E r \in toReap[n] : toReap'[n] = toReap[n] \ {r}
            /\ IF toReap'[n] # {}
               THEN pc'[n] = "rm_reap" /\ rmNext'[n] = rmNext[n]
               ELSE pc'[n] = CASE rmNext[n] = "nominate" -> "rm_insert"
                               [] rmNext[n] = "wait" -> "wait"
                               [] OTHER -> "error"
            /\ rmNext[n] \in {"nominate", "wait"} => pc'[n] # "error"]_vars

\* A node nominates itself although a failed request is still in the table:
\* the DELETE of that row raised and the row did not count as live.
C32_Witness ==
    \E n \in Nodes :
        /\ pc[n] = "rm_insert"
        /\ faults = 1
        /\ \E r \in DOMAIN requests : Owner(r) = 3 /\ requests[r].failed

\* ------------------------------------------------------------------- C33
\* C33: setupDB goes on when the keyspace already exists, and at the moment
\* it calls requestMigration the keyspace holds both coordination tables,
\* schema_migrations and schema_migration_requests.
C33_TablesExistAtRequest ==
    [][\A n \in Nodes :
        (pc[n] = "setup" /\ pc'[n] # "setup") =>
            /\ pc'[n] = "rm_read"
            /\ keyspace'
            /\ "schema_migrations" \in tables'
            /\ "schema_migration_requests" \in tables']_vars

\* ------------------------------------------------------------------- C34
\* C34: a call getPreparedStatement(stmt, ks) ends by returning the
\* statement cached under (ks, stmt), also when no session was requested
\* for ks before; when the statement is cached already the call prepares
\* nothing; and no step of the call removes a statement cached for another
\* keyspace.
C34_PreparedStatementCache ==
    [][\A t \in Threads :
        (frame[t].op = "getPreparedStatement" /\ frame'[t] # frame[t]) =>
            LET l == frame[t].lookup
                st == frame[t].statement
                cached == l \in DOMAIN preparedStmts
                            /\ st \in DOMAIN preparedStmts[l]
            IN /\ frame'[t].pc = "idle" =>
                    /\ frame[t].pc = "ps_return"
                    /\ cached
               /\ (frame[t].pc = "ps_test" /\ cached) =>
                    /\ frame'[t].pc = "ps_return"
                    /\ preparedStmts' = preparedStmts
                    /\ made' = made
               /\ \A k \in DOMAIN preparedStmts :
                    k # l =>
                        /\ k \in DOMAIN preparedStmts'
                        /\ preparedStmts'[k] = preparedStmts[k]]_vars

\* ------------------------------------------------------------------- C35
\* C35: when a node has crashed after the INSERT of its request and before
\* the UPDATE that marks it in progress, a node polling in
\* waitForMigrationCompletion eventually leaves the loop, by returning or
\* by calling requestMigration again, with no other caller of
\* requestMigration to delete the row.
C35_WaiterLeaves ==
    \A n \in Nodes :
        ( /\ pc[n] = "wait"
          /\ \E m \in Nodes :
                /\ pc[m] = "crashed"
                /\ myReq[m] \in DOMAIN requests
                /\ ~requests[myReq[m]].inprogress
                /\ ~requests[myReq[m]].failed )
            ~> (pc[n] # "wait")

\* ------------------------------------------------------------------- C36
\* The owner of a request is running the protocol with it: it sleeps the
\* two seconds that follow its INSERT, or it is in doMigration.
C36_Running(n) ==
    /\ myReq[n] \in DOMAIN requests
    /\ \/ /\ pc[n] = "rm_reread"
          /\ now <= requests[myReq[n]].reqtime + SettleTime
       \/ pc[n] \in InDoMigration

\* C36: the request of a node that is alive and running the protocol, in
\* its settle window or executing a file for however long, is not deleted
\* by another node; and a nominee whose settle window has just ended reads
\* its own row at the re-read.
C36_LiveRowNotReaped ==
    [][\A n \in Nodes :
        /\ (C36_Running(n) /\ pc'[n] = pc[n]) =>
                myReq[n] \in DOMAIN requests'
        /\ ( /\ pc[n] = "rm_reread"
             /\ now <= wake[n]
             /\ pc'[n] \notin {"rm_reread", "crashed"} ) =>
                myReq[n] \in DOMAIN requests]_vars

\* ------------------------------------------------------------------- C37
\* C37: once the request of a node has been deleted, by the node or by a
\* reaper, the writes the node still makes under that reqid (the UPDATE
\* that marks it in progress, the UPDATE of updateReq, the UPDATE that
\* marks it failed) do not bring a row with that reqid back.
C37_DeletedStaysDeleted ==
    [][\A n \in Nodes :
        ( /\ pc[n] \in {"rm_mark", "upd", "rm_markfailed"}
          /\ myReq[n] \notin DOMAIN requests ) =>
                myReq[n] \notin DOMAIN requests']_vars

\* ------------------------------------------------------------------- C38
\* C38: a history row becomes aborted (run = false, failed = true) only by
\* the failure UPDATE of the node that inserted it, and that node reaches
\* the failure UPDATE only from an execution of the script that raised:
\* never after the CQL of the script has executed successfully, whatever
\* happens to the UPDATE that marks the row applied.
C38_AbortedOnlyIfScriptFailed ==
    [][/\ \A k \in DOMAIN migrations' :
            ( /\ migrations'[k].failed
              /\ k \in DOMAIN migrations => ~migrations[k].failed ) =>
                \E n \in Nodes :
                    /\ pc[n] = "ms_fail"
                    /\ pc'[n] # pc[n]
                    /\ k = <<CurFile(n), exectime[n]>>
       /\ \A n \in Nodes :
            (pc[n] # "ms_fail" /\ pc'[n] = "ms_fail") =>
                /\ pc[n] = "ms_exec"
                /\ execOK' = execOK]_vars

\* ------------------------------------------------------------------- C39
\* C39: whenever an invocation of createDefaultOrg returns normally, also
\* one that follows an invocation cut short between the write of the
\* 'admins' setting and the creation of the admin user, the default org
\* has an 'admins' setting and the user it names exists.
C39_AdminUserExists ==
    [][\A c \in Callers :
        ( /\ cdo[c].pc \in {"cdo_admins", "cdo_user", "cdo_createuser"}
          /\ cdo'[c].pc = "idle"
          /\ crashes' = crashes ) =>
            LET k == <<cdo[c].defaultOrg, "admins">>
            IN /\ k \in DOMAIN orgsettings'
               /\ <<orgsettings'[k][2], orgsettings'[k][1]>>
                        \in DOMAIN users']_vars

\* ------------------------------------------------------------------- C40
\* C40: however two POST /users requests for the same org and username
\* interleave, at most one of them is answered with the success response,
\* and no step of a request changes the stored record of a user that
\* exists already.
C40_OneCreatorNoOverwrite ==
    [][/\ \A v, w \in Workers :
            ( /\ v # w
              /\ posts'[v].account = posts'[w].account
              /\ posts'[v].status = 200 ) => posts'[w].status # 200
       /\ \A a \in DOMAIN users :
            a \in DOMAIN users' /\ users'[a] = users[a]]_vars

====
